---- MODULE Spec2Model ----
(***************************************************************************)
(* claude-stream: the parse -> filter -> render -> format pipeline over    *)
(* the lines of a JSONL stream (models.py, stream.py, formatters.py), and  *)
(* the configuration the command line builds (cli.py), and the watcher of  *)
(* a growing file (watcher.py).                                            *)
(***************************************************************************)
EXTENDS Integers, Sequences, FiniteSets, TLC

VARIABLES
    data,       \* the decoded JSON object of the current line (raw record)
    config,     \* the RenderConfig in use
    parsed,     \* outcome of parse_message: "none" (not called), "ok", or the exception raised
    msg,        \* the message parse_message returned
    ret,        \* the statement at which should_show_message left: "none", a return line, or an exception
    frame,      \* the locals of the latest should_show_message invocation
    rendered,   \* TRUE once msg.render(config) has returned
    blocks,     \* the block sequence msg.render(config) returned
    calls,      \* history of should_show_message invocations (inputs before, result, inputs after)
    lines_left, \* records still to come on the stream
    raised,     \* the exception that left msg.render(config), "none" when there is none
    item_renders, \* the content-item renders of the latest msg.render: the item and the blocks it gave
    formatter,  \* the Formatter in use: "ansi", "markdown" or "plain"
    style_order, \* the order in which this process iterates a set of Style members
    output,     \* what formatter.format returned: [done, text, parts]
    input,      \* the lines of input_file, each as json.loads finds it
    tail_lines, \* process_stream's tail_lines argument
    pc,         \* process_stream: "idle", "start" (called), "loop", "done", "raised" (left by an exception)
    todo,       \* lines_to_process still ahead, as positions in `input`
    line_num,   \* process_stream's line_num
    stdout,     \* what was printed: the line's position in `input` and the text
    stderr,     \* the warnings printed: the line's position in `input` and the text
    argv,       \* the command-line flags given
    args,       \* the argparse namespace, [parsed |-> FALSE] before parse_args
    main_pc,    \* main: "idle", "start" (called), "parsed" (parse_args returned), "configured"
    file,       \* the watched file: its text and its generation (one more on every truncation)
    events,     \* the file system events the observer has queued for the handler
    file_positions, \* FileWatcher.file_positions[path], 0 when the path is not in it
    watch_pc,   \* the watcher: "off", "tail" (process_tail_lines called), "idle", "lines" (in _process_lines), "dead" (left by an exception)
    watch_lines, \* the call under way: the lines _process_lines still has ahead and new_position
    history     \* what the writer appended and what the watcher read and parsed since watching began

record_vars == <<data, config, parsed, msg, ret, frame, rendered, blocks, calls, lines_left, raised, item_renders>>
format_vars == <<formatter, style_order, output>>
stream_vars == <<input, tail_lines, pc, todo, line_num, stdout, stderr>>
cli_vars == <<argv, args, main_pc>>
watch_vars == <<file, events, file_positions, watch_pc, watch_lines, history>>

vars == <<record_vars, format_vars, stream_vars, cli_vars, watch_vars>>

(***************************************************************************)
(* Decoded JSON values.  A value is a kind and a text: for a JSON string   *)
(* the text is the string itself, for any other kind its JSON literal      *)
(* ("5", "null", "[1]", "{}").  A key that is not in the object is Absent. *)
(***************************************************************************)
Absent == [k |-> "absent", s |-> ""]
Str(s) == [k |-> "str", s |-> s]
Num(s) == [k |-> "num", s |-> s]
Null == [k |-> "null", s |-> "null"]
List(s) == [k |-> "list", s |-> s]
Dict(s) == [k |-> "dict", s |-> s]

\* dict.get(key, default): the value, or the default when the key is missing
Get(v, default) == IF v.k = "absent" THEN default ELSE v

\* hash(value) raises TypeError for lists and dicts
Unhashable(v) == v.k \in {"list", "dict"}

\* Python truthiness of a decoded value (None for a missing key)
Truthy(v) ==
    CASE v.k = "absent" -> FALSE
      [] v.k = "null" -> FALSE
      [] v.k = "str" -> v.s # ""
      [] v.k = "num" -> v.s # "0"
      [] v.k = "list" -> v.s # "[]"
      [] v.k = "dict" -> v.s # "{}"

\* a content item of message.content: a JSON object with optional "type" and
\* "name" keys, or (k = "other") a value that is not an object, s its literal
Item(t, n) == [k |-> "dict", s |-> "", type |-> t, name |-> n]
NonDictItem == [k |-> "other", s |-> "5", type |-> Absent, name |-> Absent]

\* message.content: missing, a string, or a list of items
NoContent == [k |-> "absent", s |-> "", items |-> <<>>]
StrContent(s) == [k |-> "str", s |-> s, items |-> <<>>]
ListContent(items) == [k |-> "list", s |-> "", items |-> items]

\* the "message" key: missing, an object holding content, or a non-object literal
NoMessage == [k |-> "absent", s |-> "", content |-> NoContent]
DictMessage(c) == [k |-> "dict", s |-> "", content |-> c]
OtherMessage(s) == [k |-> "other", s |-> s, content |-> NoContent]

(***************************************************************************)
(* RenderConfig                                                            *)
(***************************************************************************)
\* variant: "queue-operation" left out of known_types
KnownTypesMissingOne ==
    {"assistant", "user", "system", "file-history-snapshot", "summary", "result"}

\* parse_message: the discriminants the typed union handles
KnownTypes ==
    {"assistant", "user", "system", "file-history-snapshot",
     "summary", "queue-operation", "result"}

\* RenderConfig(): the dataclass defaults
DefaultConfig ==
    [show_thinking |-> TRUE, show_tool_results |-> TRUE,
     show_metadata |-> FALSE, show_line_numbers |-> FALSE,
     show_types |-> {"system", "assistant", "user", "file-history-snapshot",
                     "summary", "queue-operation", "result"},
     show_subtypes |-> {}, show_tools |-> {},
     grep_patterns |-> <<>>, exclude_patterns |-> <<>>]

(***************************************************************************)
(* Messages                                                                *)
(***************************************************************************)
NoMsg == [variant |-> "none", type |-> "", uuid |-> "", timestamp |-> "", sessionId |-> ""]

\* pydantic validation of a `str` field with default "": a missing key takes
\* the default, a JSON string is accepted, anything else is a ValidationError
StrFieldOK(v) == v.k \in {"absent", "str"}
StrField(v) == IF v.k = "str" THEN v.s ELSE ""

\* BaseMessage: `type: str` is required, uuid/timestamp/sessionId are str = ""
BaseFieldsOK(d) ==
    /\ d.type.k = "str"
    /\ StrFieldOK(d.uuid)
    /\ StrFieldOK(d.timestamp)
    /\ StrFieldOK(d.sessionId)

\* BaseMessage(**data)
BaseMessage(d) ==
    [variant |-> "BaseMessage", type |-> d.type.s, uuid |-> StrField(d.uuid),
     timestamp |-> StrField(d.timestamp), sessionId |-> StrField(d.sessionId)]

\* the class the discriminated union selects for a discriminant
VariantOf(t) ==
    CASE t = "assistant" -> "AssistantMessage"
      [] t = "user" -> "UserMessage"
      [] t = "system" -> "SystemMessage"
      [] t = "file-history-snapshot" -> "FileHistorySnapshot"
      [] t = "summary" -> "SummaryMessage"
      [] t = "queue-operation" -> "QueueOperationMessage"
      [] t = "result" -> "ResultMessage"

\* `message: dict[str, Any]` with a default: missing or an object
DictFieldOK(m) == m.k \in {"absent", "dict"}

\* strings pydantic's lax mode parses as an int
NumericStrings == {"1500"}

\* `duration_ms: int = 0`: missing, an integer, or a string that parses as one
IntFieldOK(v) == v.k \in {"absent", "num"} \/ (v.k = "str" /\ v.s \in NumericStrings)

\* the variant's own declared fields validate (extra keys are allowed as they are)
VariantFieldsOK(d) ==
    CASE d.type.s = "assistant" -> DictFieldOK(d.message)
      [] d.type.s = "user" ->
            /\ DictFieldOK(d.message)
            /\ d.toolUseResult.k \in {"absent", "dict", "str", "null"}
      [] d.type.s = "system" -> StrFieldOK(d.subtype)
      [] d.type.s = "result" -> StrFieldOK(d.subtype) /\ IntFieldOK(d.duration_ms)
      [] OTHER -> TRUE

\* _MessageAdapter(root=data) succeeds
TypedOK(d) ==
    /\ StrFieldOK(d.uuid)
    /\ StrFieldOK(d.timestamp)
    /\ StrFieldOK(d.sessionId)
    /\ VariantFieldsOK(d)

\* adapter.root: the typed variant, its type the Literal discriminant
TypedMessage(d) ==
    [variant |-> VariantOf(d.type.s), type |-> d.type.s, uuid |-> StrField(d.uuid),
     timestamp |-> StrField(d.timestamp), sessionId |-> StrField(d.sessionId)]

\* parse_message(data): [status, msg]; status is "ok" or the exception that
\* leaves the function
parse_message(d) ==
    LET msg_type == Get(d.type, Str(""))
        fallback ==
            IF BaseFieldsOK(d)
            THEN [status |-> "ok", msg |-> BaseMessage(d)]
            ELSE [status |-> "ValidationError", msg |-> NoMsg]
    IN  IF Unhashable(msg_type)
        THEN [status |-> "TypeError", msg |-> NoMsg]
        ELSE IF msg_type.k = "str" /\ msg_type.s \in KnownTypes
             THEN IF TypedOK(d)
                  THEN [status |-> "ok", msg |-> TypedMessage(d)]
                  ELSE fallback
             ELSE fallback

(***************************************************************************)
(* Render blocks.  A text is a string; an f-string is a concatenation.     *)
(***************************************************************************)
TextBlock(text, indent, styles) ==
    [kind |-> "text", text |-> text, indent |-> indent, styles |-> styles]

\* BaseMessage.render
BaseRender(m) == <<TextBlock("[Unknown message type: " \o m.type \o "]", 0, {})>>

(***************************************************************************)
(* Python strings as character sequences, and json.dumps                   *)
(***************************************************************************)
\* the characters of each string the model uses
Chars(s) ==
    CASE s = "" -> <<>>
      [] s = "type" -> <<"t", "y", "p", "e">>
      [] s = "uuid" -> <<"u", "u", "i", "d">>
      [] s = "timestamp" -> <<"t", "i", "m", "e", "s", "t", "a", "m", "p">>
      [] s = "sessionId" -> <<"s", "e", "s", "s", "i", "o", "n", "I", "d">>
      [] s = "subtype" -> <<"s", "u", "b", "t", "y", "p", "e">>
      [] s = "message" -> <<"m", "e", "s", "s", "a", "g", "e">>
      [] s = "content" -> <<"c", "o", "n", "t", "e", "n", "t">>
      [] s = "name" -> <<"n", "a", "m", "e">>
      [] s = "toolUseResult" -> <<"t", "o", "o", "l", "U", "s", "e", "R", "e", "s", "u", "l", "t">>
      [] s = "duration_ms" -> <<"d", "u", "r", "a", "t", "i", "o", "n", "_", "m", "s">>
      [] s = "assistant" -> <<"a", "s", "s", "i", "s", "t", "a", "n", "t">>
      [] s = "user" -> <<"u", "s", "e", "r">>
      [] s = "system" -> <<"s", "y", "s", "t", "e", "m">>
      [] s = "file-history-snapshot" -> <<"f", "i", "l", "e", "-", "h", "i", "s", "t", "o", "r", "y", "-", "s", "n", "a", "p", "s", "h", "o", "t">>
      [] s = "summary" -> <<"s", "u", "m", "m", "a", "r", "y">>
      [] s = "queue-operation" -> <<"q", "u", "e", "u", "e", "-", "o", "p", "e", "r", "a", "t", "i", "o", "n">>
      [] s = "result" -> <<"r", "e", "s", "u", "l", "t">>
      [] s = "foo" -> <<"f", "o", "o">>
      [] s = "text" -> <<"t", "e", "x", "t">>
      [] s = "tool_use" -> <<"t", "o", "o", "l", "_", "u", "s", "e">>
      [] s = "Bash" -> <<"B", "a", "s", "h">>
      [] s = "Read" -> <<"R", "e", "a", "d">>
      [] s = "init" -> <<"i", "n", "i", "t">>
      [] s = "stop" -> <<"s", "t", "o", "p">>
      [] s = "hi" -> <<"h", "i">>
      [] s = "café" -> <<"c", "a", "f", "é">>
      [] s = "u1" -> <<"u", "1">>
      [] s = "t1" -> <<"t", "1">>
      [] s = "s1" -> <<"s", "1">>
      [] s = "fast" -> <<"f", "a", "s", "t">>
      [] s = "1500" -> <<"1", "5", "0", "0">>
      [] s = "5" -> <<"5">>
      [] s = "0" -> <<"0">>
      [] s = "1499" -> <<"1", "4", "9", "9">>
      [] s = "null" -> <<"n", "u", "l", "l">>
      [] s = "[1]" -> <<"[", "1", "]">>
      [] s = "[]" -> <<"[", "]">>
      [] s = "{}" -> <<"{", "}">>
      [] s = "{\"a\": 1}" -> <<"{", "\"", "a", "\"", ":", " ", "1", "}">>
      [] s = "\"type\": \"user\"" -> <<"\"", "t", "y", "p", "e", "\"", ":", " ", "\"", "u", "s", "e", "r", "\"">>
      [] s = "é" -> <<"é">>
      [] s = "\\u00e9" -> <<"\\", "u", "0", "0", "e", "9">>
      [] s = "zzz" -> <<"z", "z", "z">>
      [] s = "ool_use\", \"name\": \"Re" -> <<"o", "o", "l", "_", "u", "s", "e", "\"", ",", " ", "\"", "n", "a", "m", "e", "\"", ":", " ", "\"", "R", "e">>

\* json.dumps escapes a character inside a string: quote and backslash get a
\* backslash, a non-ASCII character becomes \uXXXX (ensure_ascii)
Esc(c) ==
    CASE c = "\"" -> <<"\\", "\"">>
      [] c = "\\" -> <<"\\", "\\">>
      [] c = "é" -> <<"\\", "u", "0", "0", "e", "9">>
      [] OTHER -> <<c>>

RECURSIVE EscAll(_)
EscAll(cs) == IF cs = <<>> THEN <<>> ELSE Esc(Head(cs)) \o EscAll(Tail(cs))

\* a JSON string literal
DumpStr(s) == <<"\"">> \o EscAll(Chars(s)) \o <<"\"">>

\* a scalar or opaque value: a quoted string, or the literal of another kind
DumpVal(v) == IF v.k = "str" THEN DumpStr(v.s) ELSE Chars(v.s)

\* item_separator ", "
RECURSIVE Join(_)
Join(parts) ==
    IF parts = <<>> THEN <<>>
    ELSE IF Len(parts) = 1 THEN parts[1]
    ELSE parts[1] \o <<",", " ">> \o Join(Tail(parts))

\* key_separator ": "
Pair(key, val) == DumpStr(key) \o <<":", " ">> \o val

\* the pairs of the keys that are present, in order
RECURSIVE Present(_)
Present(kvs) ==
    IF kvs = <<>> THEN <<>>
    ELSE IF kvs[1][2].k = "absent" THEN Present(Tail(kvs))
    ELSE <<Pair(kvs[1][1], kvs[1][3])>> \o Present(Tail(kvs))

DumpObject(kvs) == <<"{">> \o Join(Present(kvs)) \o <<"}">>

DumpItem(it) ==
    IF it.k = "other" THEN Chars(it.s)
    ELSE DumpObject(<< <<"type", it.type, DumpVal(it.type)>>,
                       <<"name", it.name, DumpVal(it.name)>> >>)

DumpContent(c) ==
    IF c.k = "str" THEN DumpStr(c.s)
    ELSE <<"[">> \o Join([i \in 1..Len(c.items) |-> DumpItem(c.items[i])]) \o <<"]">>

DumpMessage(m) ==
    IF m.k = "other" THEN Chars(m.s)
    ELSE DumpObject(<< <<"content", m.content, DumpContent(m.content)>> >>)

\* json.dumps(data)
Dumps(d) ==
    DumpObject(<< <<"type", d.type, DumpVal(d.type)>>,
                  <<"uuid", d.uuid, DumpVal(d.uuid)>>,
                  <<"timestamp", d.timestamp, DumpVal(d.timestamp)>>,
                  <<"sessionId", d.sessionId, DumpVal(d.sessionId)>>,
                  <<"subtype", d.subtype, DumpVal(d.subtype)>>,
                  <<"message", d.message, DumpMessage(d.message)>>,
                  <<"toolUseResult", d.toolUseResult, DumpVal(d.toolUseResult)>>,
                  <<"duration_ms", d.duration_ms, DumpVal(d.duration_ms)>> >>)

\* `pattern in msg_str` for str operands
Contains(text, pat) ==
    \E i \in 0..(Len(text) - Len(pat)) : SubSeq(text, i + 1, i + Len(pat)) = pat

(***************************************************************************)
(* should_show_message                                                     *)
(***************************************************************************)
\* data.get("message", {}).get("content", []): the content, or the
\* AttributeError of calling .get on a value that is not a dict
message_content(d) ==
    CASE d.message.k = "absent" -> [status |-> "ok", content |-> ListContent(<<>>)]
      [] d.message.k = "other" -> [status |-> "AttributeError", content |-> NoContent]
      [] d.message.k = "dict" ->
            [status |-> "ok",
             content |-> IF d.message.content.k = "absent" THEN ListContent(<<>>)
                         ELSE d.message.content]

\* the loop over the items of a list content (nothing for a string content)
content_items(c) == IF c.k = "list" THEN c.items ELSE <<>>

\* variant: the set of the previous invocation is reused
LeftoverContentTypes == frame.content_types

\* content_types = set()
NewContentTypes == {}

\* tools_in_msg = set()
NewToolsInMsg == {}

\* for item in content: if isinstance(item, dict): content_types.add(item.get("type"))
\* (a missing "type" adds None, here Absent; an unhashable one raises TypeError)
RECURSIVE add_content_types(_, _)
add_content_types(items, acc) ==
    IF items = <<>> THEN [status |-> "ok", set |-> acc]
    ELSE LET item == Head(items) IN
         IF item.k # "dict" THEN add_content_types(Tail(items), acc)
         ELSE IF Unhashable(item.type) THEN [status |-> "TypeError", set |-> acc]
         ELSE add_content_types(Tail(items), acc \cup {item.type})

\* for item in content: if isinstance(item, dict) and item.get("type") == "tool_use":
\*     tools_in_msg.add(item.get("name"))
RECURSIVE add_tools(_, _)
add_tools(items, acc) ==
    IF items = <<>> THEN [status |-> "ok", set |-> acc]
    ELSE LET item == Head(items) IN
         IF ~(item.k = "dict" /\ item.type = Str("tool_use")) THEN add_tools(Tail(items), acc)
         ELSE IF Unhashable(item.name) THEN [status |-> "TypeError", set |-> acc]
         ELSE add_tools(Tail(items), acc \cup {item.name})

\* configured.intersection(found) is non-empty: the configured names are
\* strings, so only a string member of `found` can be in it
Intersects(configured, found) == \E v \in found : v.k = "str" /\ v.s \in configured

\* variant: `config.show_types and` dropped from the condition
TypeRuleNoEmptyGuard(m, d, c) ==
    IF m.type \notin c.show_types THEN "L23" ELSE "pass"

\* lines 21-23: the type filter
TypeRule(m, d, c) ==
    IF c.show_types # {} /\ m.type \notin c.show_types THEN "L23" ELSE "pass"

\* variant: `subtype is not None and` in place of `subtype and`
SubtypeRuleIsNotNone(m, d, c) ==
    IF c.show_subtypes = {} THEN [ret |-> "pass", content_types |-> frame.content_types]
    ELSE IF m.type = "assistant"
    THEN LET mc == message_content(d)
             ct == add_content_types(content_items(mc.content), NewContentTypes)
         IN  IF mc.status # "ok" THEN [ret |-> "AttributeError30", content_types |-> frame.content_types]
             ELSE IF ct.status # "ok" THEN [ret |-> "TypeError34", content_types |-> ct.set]
             ELSE IF ~Intersects(c.show_subtypes, ct.set) THEN [ret |-> "L36", content_types |-> ct.set]
             ELSE [ret |-> "pass", content_types |-> ct.set]
    ELSE LET subtype == d.subtype IN
         IF subtype.k \in {"absent", "null"} THEN [ret |-> "pass", content_types |-> frame.content_types]
         ELSE IF Unhashable(subtype) THEN [ret |-> "TypeError37", content_types |-> frame.content_types]
         ELSE IF ~(subtype.k = "str" /\ subtype.s \in c.show_subtypes)
              THEN [ret |-> "L38", content_types |-> frame.content_types]
              ELSE [ret |-> "pass", content_types |-> frame.content_types]

\* lines 25-38: the subtype filter; content_types is the local as the rule leaves it
SubtypeRule(m, d, c) ==
    IF c.show_subtypes = {} THEN [ret |-> "pass", content_types |-> frame.content_types]
    ELSE IF m.type = "assistant"
    THEN LET mc == message_content(d)
             ct == add_content_types(content_items(mc.content), NewContentTypes)
         IN  IF mc.status # "ok" THEN [ret |-> "AttributeError30", content_types |-> frame.content_types]
             ELSE IF ct.status # "ok" THEN [ret |-> "TypeError34", content_types |-> ct.set]
             ELSE IF ~Intersects(c.show_subtypes, ct.set) THEN [ret |-> "L36", content_types |-> ct.set]
             ELSE [ret |-> "pass", content_types |-> ct.set]
    ELSE LET subtype == d.subtype IN
         IF ~Truthy(subtype) THEN [ret |-> "pass", content_types |-> frame.content_types]
         ELSE IF Unhashable(subtype) THEN [ret |-> "TypeError37", content_types |-> frame.content_types]
         ELSE IF ~(subtype.k = "str" /\ subtype.s \in c.show_subtypes)
              THEN [ret |-> "L38", content_types |-> frame.content_types]
              ELSE [ret |-> "pass", content_types |-> frame.content_types]

\* lines 40-51: the tool filter
ToolRule(m, d, c) ==
    IF c.show_tools = {} THEN [ret |-> "pass", tools_in_msg |-> frame.tools_in_msg]
    ELSE LET mc == message_content(d)
             tm == add_tools(content_items(mc.content), NewToolsInMsg)
         IN  IF mc.status # "ok" THEN [ret |-> "AttributeError43", tools_in_msg |-> frame.tools_in_msg]
             ELSE IF tm.status # "ok" THEN [ret |-> "TypeError47", tools_in_msg |-> tm.set]
             ELSE IF tm.set = {} THEN [ret |-> "L49", tools_in_msg |-> tm.set]
             ELSE IF ~Intersects(c.show_tools, tm.set) THEN [ret |-> "L51", tools_in_msg |-> tm.set]
             ELSE [ret |-> "pass", tools_in_msg |-> tm.set]

\* any(pattern in msg_str for pattern in patterns)
AnyPattern(patterns, msg_str) ==
    \E i \in 1..Len(patterns) : Contains(msg_str, Chars(patterns[i]))

\* lines 53-57: the grep filter
GrepRule(d, c) ==
    IF c.grep_patterns # <<>> /\ ~AnyPattern(c.grep_patterns, Dumps(d)) THEN "L57" ELSE "pass"

\* variant: a grep match overrides the exclude patterns
ExcludeRuleUnlessGrepped(d, c) ==
    IF /\ c.exclude_patterns # <<>>
       /\ AnyPattern(c.exclude_patterns, Dumps(d))
       /\ ~(c.grep_patterns # <<>> /\ AnyPattern(c.grep_patterns, Dumps(d)))
    THEN "L63" ELSE "pass"

\* lines 59-63: the exclude filter
ExcludeRule(d, c) ==
    IF c.exclude_patterns # <<>> /\ AnyPattern(c.exclude_patterns, Dumps(d)) THEN "L63" ELSE "pass"

\* should_show_message(msg, data, config): the statement it leaves at (a
\* `return False` line, "L65" for `return True`, or the exception raised),
\* and its locals at that point
should_show_message(m, d, c) ==
    LET t == TypeRule(m, d, c)
        s == SubtypeRule(m, d, c)
        u == ToolRule(m, d, c)
        g == GrepRule(d, c)
        x == ExcludeRule(d, c)
    IN  IF t # "pass" THEN [ret |-> t, frame |-> frame]
        ELSE IF s.ret # "pass"
        THEN [ret |-> s.ret, frame |-> [frame EXCEPT !.content_types = s.content_types]]
        ELSE IF u.ret # "pass"
        THEN [ret |-> u.ret,
              frame |-> [content_types |-> s.content_types, tools_in_msg |-> u.tools_in_msg]]
        ELSE [ret |-> IF g # "pass" THEN g ELSE IF x # "pass" THEN x ELSE "L65",
              frame |-> [content_types |-> s.content_types, tools_in_msg |-> u.tools_in_msg]]

\* the value the call hands back: True, False, or no value (an exception)
Outcome(r) ==
    IF r = "L65" THEN "True"
    ELSE IF r \in {"L23", "L36", "L38", "L49", "L51", "L57", "L63"} THEN "False"
    ELSE "raise"

(***************************************************************************)
(* Python strings.  A str is a TLA+ string; a character outside Latin-1    *)
(* (the icons) is written as its code point, "U+25B8".                     *)
(***************************************************************************)
\* s.find(pat) + 1: the position of the first occurrence of pat, 0 when
\* there is none
Find(s, pat) ==
    LET at == {i \in 1..(Len(s) - Len(pat) + 1) : SubSeq(s, i, i + Len(pat) - 1) = pat}
    IN  IF at = {} THEN 0 ELSE CHOOSE i \in at : \A j \in at : i <= j

\* s.split("\n"), cut[from] being the lines of s[from - 1:]
Split[s \in STRING] ==
    LET cut[from \in 1..(Len(s) + 1)] ==
            LET at == {i \in from..Len(s) : SubSeq(s, i, i) = "\n"}
            IN  IF at = {} THEN <<SubSeq(s, from, Len(s))>>
                ELSE LET i == CHOOSE i \in at : \A j \in at : i <= j
                     IN  <<SubSeq(s, from, i - 1)>> \o cut[i + 1]
    IN  cut[1]

\* sep.join(strs), tail[i] being sep.join(strs[i - 1:])
JoinStr(sep, strs) ==
    LET tail[i \in 1..Len(strs)] ==
            IF i = Len(strs) THEN strs[i] ELSE strs[i] \o sep \o tail[i + 1]
    IN  IF Len(strs) = 0 THEN "" ELSE tail[1]

\* s.replace(pat, "")
RECURSIVE Remove(_, _)
Remove(s, pat) ==
    LET i == Find(s, pat)
    IN  IF i = 0 THEN s
        ELSE SubSeq(s, 1, i - 1) \o Remove(SubSeq(s, i + Len(pat), Len(s)), pat)

\* int(s) for a string of decimal digits
RECURSIVE ParseInt(_)
ParseInt(s) ==
    IF s = "" THEN 0
    ELSE 10 * ParseInt(SubSeq(s, 1, Len(s) - 1))
            + (CHOOSE digit \in 0..9 : ToString(digit) = SubSeq(s, Len(s), Len(s)))

(***************************************************************************)
(* Decoded JSON values nested in a record.  The keys an object may lack    *)
(* are read with Field; an integer carries its value next to its literal.  *)
(***************************************************************************)
\* obj.get(key): the value, Absent when the object has no such key
Field(obj, key) == IF key \in DOMAIN obj THEN obj[key] ELSE Absent

Bool(b) == [k |-> "bool", s |-> IF b THEN "true" ELSE "false"]
IntVal(n) == [k |-> "num", s |-> ToString(n), n |-> n]

\* the int a JSON number (or a numeric string pydantic accepted) stands for
IntOf(v) == IF "n" \in DOMAIN v THEN v.n ELSE ParseInt(v.s)

(***************************************************************************)
(* The render blocks (blocks.py)                                           *)
(***************************************************************************)
HeaderBlock(text, level, icon, prefix, styles) ==
    [kind |-> "header", text |-> text, level |-> level, icon |-> icon,
     prefix |-> prefix, styles |-> styles]

KeyValueBlock(key, value, indent) ==
    [kind |-> "keyvalue", key |-> key, value |-> value, indent |-> indent, styles |-> {}]

DividerBlock(char, width) ==
    [kind |-> "divider", char |-> char, width |-> width, styles |-> {}]

\* SpacerBlock(lines=1) is SpacerBlock()
SpacerBlock(lines) == [kind |-> "spacer", lines |-> lines, styles |-> {}]

\* for line in text.split("\n"): blocks.append(TextBlock(text=line, indent=indent, styles=styles))
LineBlocks(text, indent, styles) ==
    LET lines == Split[text]
    IN  [i \in 1..Len(lines) |-> TextBlock(lines[i], indent, styles)]

(***************************************************************************)
(* Content items (models.py).  A render gives [status, blocks, parts]:     *)
(* status "ok" and the blocks it returned, or the exception it raised.     *)
(* `parts` lists the content-item renders made on the way.                 *)
(***************************************************************************)
TOOL_RESULT_PREVIEW_LINES == 20
TOOL_INPUT_TRUNCATE_LENGTH == 200

Returns(bs) == [status |-> "ok", blocks |-> bs, parts |-> <<>>]
Raises(e) == [status |-> e, blocks |-> <<>>, parts |-> <<>>]

\* TextContent(**item).render(config)
TextContent(item, c) ==
    LET text == Field(item, "text")
    IN  IF ~StrFieldOK(text) THEN Raises("ValidationError")
        ELSE Returns(LineBlocks(StrField(text), 1, {}))

\* variant: the thinking is rendered whatever config.show_thinking says
ThinkingContentAlwaysShown(item, c) ==
    LET thinking == Field(item, "thinking")
    IN  IF ~(StrFieldOK(thinking) /\ StrFieldOK(Field(item, "signature")))
        THEN Raises("ValidationError")
        ELSE Returns(<<TextBlock("U+1F4AD Thinking:", 1, {"thinking"})>>
                        \o LineBlocks(StrField(thinking), 2, {"thinking"}))

\* ThinkingContent(**item).render(config)
ThinkingContent(item, c) ==
    LET thinking == Field(item, "thinking")
    IN  IF ~(StrFieldOK(thinking) /\ StrFieldOK(Field(item, "signature")))
        THEN Raises("ValidationError")
        ELSE IF ~c.show_thinking THEN Returns(<<>>)
        ELSE Returns(<<TextBlock("U+1F4AD Thinking:", 1, {"thinking"})>>
                        \o LineBlocks(StrField(thinking), 2, {"thinking"}))

\* ToolUseContent(**item).render(config); the values of `input` are strings,
\* which str(value) leaves as they are
ToolUseContent(item, c) ==
    LET id == Field(item, "id")
        name == Field(item, "name")
        input_ == Field(item, "input")
        pairs == IF "pairs" \in DOMAIN input_ THEN input_.pairs ELSE <<>>
        value_str(v) == IF Len(v) > TOOL_INPUT_TRUNCATE_LENGTH
                        THEN SubSeq(v, 1, TOOL_INPUT_TRUNCATE_LENGTH) \o "..."
                        ELSE v
    IN  IF ~(StrFieldOK(id) /\ StrFieldOK(name) /\ input_.k \in {"absent", "dict"})
        THEN Raises("ValidationError")
        ELSE Returns(
            <<HeaderBlock("Tool: " \o StrField(name), 3, "U+25B8", "", {"tool"}),
              TextBlock("(" \o StrField(id) \o ")", 1, {"metadata"})>>
            \o (IF c.show_tool_results
                THEN [i \in 1..Len(pairs) |->
                        KeyValueBlock(pairs[i][1], value_str(pairs[i][2]), 2)]
                ELSE <<>>))

\* ToolResultContentValue validates: a str, or a list whose items are
\* {"type": "text", "text": str} or {"type": "image", "source": {...}}
ToolResultContentOK(content) ==
    \/ content.k \in {"absent", "str"}
    \/ /\ content.k = "list"
       /\ \A i \in 1..Len(content.items) :
            LET sub == content.items[i] IN
            /\ sub.k = "dict"
            /\ \/ Field(sub, "type") = Str("text") /\ Field(sub, "text").k = "str"
               \/ Field(sub, "type") = Str("image") /\ Field(sub, "source").k = "dict"

\* ToolResultContent._content_to_string
_content_to_string(content) ==
    IF content.k # "list" THEN StrField(content)
    ELSE JoinStr("\n",
            [i \in 1..Len(content.items) |->
                LET sub == content.items[i] IN
                IF Field(sub, "type") = Str("text") THEN sub.text.s
                ELSE "[Image: " \o Get(Field(sub.source, "media_type"), Str("unknown")).s \o "]"])

\* variant: the note is added from the limit on, not only beyond it
ToolResultContentNoteAtLimit(item, c) ==
    LET tool_use_id == Field(item, "tool_use_id")
        content == Field(item, "content")
        is_error == Field(item, "is_error")
        lines == Split[_content_to_string(content)]
        shown == IF Len(lines) < TOOL_RESULT_PREVIEW_LINES
                 THEN Len(lines) ELSE TOOL_RESULT_PREVIEW_LINES
    IN  IF ~(StrFieldOK(tool_use_id) /\ ToolResultContentOK(content)
             /\ is_error.k \in {"absent", "bool"})
        THEN Raises("ValidationError")
        ELSE Returns(
            <<IF is_error = Bool(TRUE)
              THEN HeaderBlock("Error", 3, "U+2717", "", {"error"})
              ELSE HeaderBlock("Result", 3, "U+2713", "", {"success"}),
              TextBlock("(" \o StrField(tool_use_id) \o ")", 1, {"metadata"})>>
            \o (IF c.show_tool_results
                   /\ (IF content.k = "list" THEN content.items # <<>>
                       ELSE StrField(content) # "")
                THEN [i \in 1..shown |-> TextBlock(lines[i], 2, {})]
                     \o (IF Len(lines) >= TOOL_RESULT_PREVIEW_LINES
                         THEN <<TextBlock("... (" \o ToString(Len(lines)) \o " lines total)",
                                          2, {"metadata"})>>
                         ELSE <<>>)
                ELSE <<>>))

\* ToolResultContent(**item).render(config)
ToolResultContent(item, c) ==
    LET tool_use_id == Field(item, "tool_use_id")
        content == Field(item, "content")
        is_error == Field(item, "is_error")
        lines == Split[_content_to_string(content)]
        shown == IF Len(lines) < TOOL_RESULT_PREVIEW_LINES
                 THEN Len(lines) ELSE TOOL_RESULT_PREVIEW_LINES
    IN  IF ~(StrFieldOK(tool_use_id) /\ ToolResultContentOK(content)
             /\ is_error.k \in {"absent", "bool"})
        THEN Raises("ValidationError")
        ELSE Returns(
            <<IF is_error = Bool(TRUE)
              THEN HeaderBlock("Error", 3, "U+2717", "", {"error"})
              ELSE HeaderBlock("Result", 3, "U+2713", "", {"success"}),
              TextBlock("(" \o StrField(tool_use_id) \o ")", 1, {"metadata"})>>
            \o (IF c.show_tool_results
                   /\ (IF content.k = "list" THEN content.items # <<>>
                       ELSE StrField(content) # "")
                THEN [i \in 1..shown |-> TextBlock(lines[i], 2, {})]
                     \o (IF Len(lines) > TOOL_RESULT_PREVIEW_LINES
                         THEN <<TextBlock("... (" \o ToString(Len(lines)) \o " lines total)",
                                          2, {"metadata"})>>
                         ELSE <<>>)
                ELSE <<>>))

\* ImageContent(**item).render(config)
ImageContent(item, c) ==
    LET source == Field(item, "source")
        media_type == IF source.k = "dict" THEN Field(source, "media_type") ELSE Absent
    IN  IF ~(source.k \in {"absent", "dict"} /\ StrFieldOK(media_type))
        THEN Raises("ValidationError")
        ELSE Returns(<<HeaderBlock("Image (" \o Get(media_type, Str("unknown")).s \o ")",
                                   3, "U+1F5BC", "", {"user"})>>)

(***************************************************************************)
(* Message renders (models.py).  `m` is the message, `d` the record it was *)
(* built from: validation keeps the declared fields of a typed message as  *)
(* the record has them (a missing key becoming the field's default, a null *)
(* toolUseResult None), and extra="allow" keeps every other key.           *)
(***************************************************************************)
\* str(value) as an f-string shows it
PyStr(v) ==
    CASE v.k = "null" -> "None"
      [] v.k = "bool" -> (IF v.s = "true" THEN "True" ELSE "False")
      [] OTHER -> v.s

\* s.startswith(prefix)
StartsWith(s, prefix) == Len(s) >= Len(prefix) /\ SubSeq(s, 1, Len(prefix)) = prefix

\* BaseMessage.render_metadata
\* variant: the group is given whatever the configuration says
render_metadataAlways(m, c) ==
    <<TextBlock("-- Metadata", 1, {"metadata"}),
      TextBlock("| uuid: " \o m.uuid, 1, {"metadata"}),
      TextBlock("| session: " \o m.sessionId, 1, {"metadata"}),
      TextBlock("| timestamp: " \o m.timestamp, 1, {"metadata"}),
      TextBlock("--", 1, {"metadata"})>>

render_metadata(m, c) ==
    IF ~c.show_metadata THEN <<>>
    ELSE <<TextBlock("-- Metadata", 1, {"metadata"})>>
         \o (IF m.uuid # "" THEN <<TextBlock("| uuid: " \o m.uuid, 1, {"metadata"})>> ELSE <<>>)
         \o (IF m.sessionId # ""
             THEN <<TextBlock("| session: " \o m.sessionId, 1, {"metadata"})>> ELSE <<>>)
         \o (IF m.timestamp # ""
             THEN <<TextBlock("| timestamp: " \o m.timestamp, 1, {"metadata"})>> ELSE <<>>)
         \o <<TextBlock("--", 1, {"metadata"})>>

\* the content model a type tag constructs, and its render
ContentRender(item, c) ==
    CASE item.type.s = "text" -> TextContent(item, c)
      [] item.type.s = "thinking" -> ThinkingContent(item, c)
      [] item.type.s = "tool_use" -> ToolUseContent(item, c)
      [] item.type.s = "tool_result" -> ToolResultContent(item, c)
      [] item.type.s = "image" -> ImageContent(item, c)

\* the loops over the content items, by the method that runs them:
\* render_content delegates all five item types, render_user_input splits a
\* text item itself and delegates tool_result and image, render_tool_result
\* delegates tool_result only; item.get on an item that is not a dict raises
RECURSIVE render_items(_, _, _)
render_items(items, c, caller) ==
    IF items = <<>> THEN Returns(<<>>)
    ELSE LET item == Head(items)
             type == Field(item, "type")
             delegated ==
                CASE caller = "render_content" ->
                        {"text", "thinking", "tool_use", "tool_result", "image"}
                  [] caller = "render_user_input" -> {"tool_result", "image"}
                  [] caller = "render_tool_result" -> {"tool_result"}
             r == IF item.k # "dict" THEN Raises("AttributeError")
                  ELSE IF type.k = "str" /\ type.s \in delegated
                  THEN LET x == ContentRender(item, c)
                       IN  [x EXCEPT !.parts = <<[item |-> item, status |-> x.status,
                                                  blocks |-> x.blocks]>>]
                  ELSE IF caller = "render_user_input" /\ type = Str("text")
                  THEN IF StrFieldOK(Field(item, "text"))
                       THEN Returns(LineBlocks(StrField(Field(item, "text")), 1, {}))
                       ELSE Raises("AttributeError")
                  ELSE Returns(<<>>)
             rest == render_items(Tail(items), c, caller)
         IN  IF r.status # "ok" THEN r
             ELSE IF rest.status # "ok" THEN [rest EXCEPT !.parts = r.parts \o rest.parts]
             ELSE [status |-> "ok", blocks |-> r.blocks \o rest.blocks,
                   parts |-> r.parts \o rest.parts]

\* x > 0 on a decoded value x: an int compares, anything else but a bool
\* raises TypeError
Positive(v) ==
    CASE v.k = "absent" -> [status |-> "ok", gt |-> FALSE]
      [] v.k = "num" -> [status |-> "ok", gt |-> IntOf(v) > 0]
      [] v.k = "bool" -> [status |-> "ok", gt |-> v.s = "true"]
      [] OTHER -> [status |-> "TypeError", gt |-> FALSE]

\* AgentStyleMessage.render_usage
render_usage(d, c) ==
    LET usage == Field(d.message, "usage")
        tokens(key) == IF usage.k = "dict" THEN Field(usage, key) ELSE Absent
        in_tokens == tokens("input_tokens")
        out_tokens == tokens("output_tokens")
        cache_read == tokens("cache_read_input_tokens")
        shown(v) == PyStr(Get(v, IntVal(0)))
    IN  IF usage.k \notin {"absent", "dict"} THEN Raises("AttributeError")
        ELSE IF Positive(in_tokens).status # "ok" THEN Raises("TypeError")
        ELSE IF ~Positive(in_tokens).gt /\ Positive(out_tokens).status # "ok"
        THEN Raises("TypeError")
        ELSE IF Positive(in_tokens).gt \/ Positive(out_tokens).gt
        THEN Returns(<<TextBlock("Tokens: in=" \o shown(in_tokens) \o " out=" \o shown(out_tokens)
                                    \o " cache=" \o shown(cache_read), 1, {"metadata"})>>)
        ELSE Returns(<<>>)

\* AgentStyleMessage.render, with AssistantMessage.get_agent_label
AssistantRender(m, d, c) ==
    LET header == HeaderBlock(IF Field(d, "isSidechain") = Bool(TRUE)
                              THEN "ASSISTANT (Task Agent)" ELSE "ASSISTANT",
                              2, "*", "", {"assistant", "bold"})
        content == render_items(content_items(d.message.content), c, "render_content")
        usage == render_usage(d, c)
    IN  IF content.status # "ok" THEN content
        ELSE IF usage.status # "ok" THEN [usage EXCEPT !.parts = content.parts]
        ELSE [status |-> "ok",
              blocks |-> <<header>> \o content.blocks \o usage.blocks
                            \o render_metadata(m, c) \o <<SpacerBlock(1)>>,
              parts |-> content.parts]

\* UserMessage.is_subagent_result
is_subagent_result(d) ==
    /\ d.toolUseResult.k = "dict"
    /\ Field(d.toolUseResult, "agentId").k \notin {"absent", "null"}

\* UserMessage.is_tool_result
is_tool_result(d) ==
    /\ d.toolUseResult.k \notin {"absent", "null"}
    /\ ~is_subagent_result(d)

\* UserMessage.is_local_command
is_local_command(d) ==
    /\ d.message.content.k = "str"
    /\ \/ StartsWith(d.message.content.s, "<command-name>")
       \/ StartsWith(d.message.content.s, "<local-command-stdout>")

\* UserMessage.render_user_input
render_user_input(m, d, c) ==
    LET header == HeaderBlock("USER", 2, "U+25C2", "", {"user"})
        content == d.message.content
        body == IF content.k = "str" /\ content.s # ""
                THEN Returns(LineBlocks(content.s, 1, {}))
                ELSE render_items(content_items(content), c, "render_user_input")
    IN  IF body.status # "ok" THEN body
        ELSE [body EXCEPT !.blocks = <<header>> \o body.blocks
                                        \o render_metadata(m, c) \o <<SpacerBlock(1)>>]

\* UserMessage.render_tool_result
render_tool_result(m, d, c) ==
    LET body == render_items(content_items(d.message.content), c, "render_tool_result")
    IN  IF body.status # "ok" THEN body
        ELSE [body EXCEPT !.blocks = body.blocks \o render_metadata(m, c) \o <<SpacerBlock(1)>>]

\* UserMessage.render_subagent
render_subagent(m, d, c) ==
    LET tur == d.toolUseResult
        agent_id == PyStr(Field(tur, "agentId"))
        content == Field(tur, "content")
        items == IF content.k = "list" THEN content.items ELSE <<>>
        is_text(item) == item.k = "dict" /\ Field(item, "type") = Str("text")
        \* the blocks of the text items from the i-th on
        text_blocks[i \in 1..(Len(items) + 1)] ==
            IF i > Len(items) THEN <<>>
            ELSE (IF is_text(items[i])
                  THEN LineBlocks(StrField(Field(items[i], "text")), 1, {})
                  ELSE <<>>) \o text_blocks[i + 1]
        total_tokens == Field(tur, "totalTokens")
    IN  IF content.k \in {"null", "num", "bool"} THEN Raises("TypeError")
        ELSE IF \E i \in 1..Len(items) :
                    is_text(items[i]) /\ ~StrFieldOK(Field(items[i], "text"))
        THEN Raises("AttributeError")
        ELSE IF Positive(total_tokens).status # "ok" THEN Raises("TypeError")
        ELSE Returns(
            <<HeaderBlock("SUB-AGENT (" \o agent_id \o ")", 2, "U+25C6", "",
                          {"assistant", "bold"})>>
            \o text_blocks[1]
            \o (IF Positive(total_tokens).gt
                THEN <<TextBlock("Total tokens: " \o PyStr(total_tokens), 1, {"metadata"})>>
                ELSE <<>>)
            \o render_metadata(m, c) \o <<SpacerBlock(1)>>)

\* UserMessage.render_local_command
\* variant: the name is all that follows the opening tag, and no args
render_local_commandUnparsed(m, d, c) ==
    Returns(<<HeaderBlock("Command: " \o SubSeq(d.message.content.s, Len("<command-name>") + 1,
                                                Len(d.message.content.s)),
                          3, "U+25B8", "", {"user"})>>
            \o render_metadata(m, c) \o <<SpacerBlock(1)>>)

render_local_command(m, d, c) ==
    LET content == d.message.content.s
        \* content[index(open) + len(open) : index(close)] when both tags are
        \* in the content and the slice is not empty, else ""
        between(open, close) ==
            LET start == Find(content, open) - 1 + Len(open)
                end == Find(content, close) - 1
            IN  IF Find(content, open) # 0 /\ Find(content, close) # 0 /\ start < end
                THEN SubSeq(content, start + 1, end)
                ELSE ""
        cmd_name == between("<command-name>", "</command-name>")
        cmd_args == between("<command-args>", "</command-args>")
        stdout_ == Remove(Remove(content, "<local-command-stdout>"), "</local-command-stdout>")
        lines == Split[stdout_]
        shown == IF Len(lines) < TOOL_RESULT_PREVIEW_LINES
                 THEN Len(lines) ELSE TOOL_RESULT_PREVIEW_LINES
    IN  Returns(
            (IF StartsWith(content, "<command-name>")
             THEN <<HeaderBlock("Command: " \o cmd_name, 3, "U+25B8", "", {"user"})>>
                  \o (IF cmd_args # "" THEN <<KeyValueBlock("args", cmd_args, 1)>> ELSE <<>>)
             ELSE IF c.show_tool_results
             THEN <<HeaderBlock("Output", 3, "U+25C6", "", {"user"})>>
                  \o [i \in 1..shown |-> TextBlock(lines[i], 2, {})]
                  \o (IF Len(lines) > TOOL_RESULT_PREVIEW_LINES
                      THEN <<TextBlock("... (" \o ToString(Len(lines)) \o " lines total)",
                                       2, {"metadata"})>>
                      ELSE <<>>)
             ELSE <<>>)
            \o render_metadata(m, c) \o <<SpacerBlock(1)>>)

\* UserMessage.render
UserRender(m, d, c) ==
    IF is_subagent_result(d) THEN render_subagent(m, d, c)
    ELSE IF is_tool_result(d) THEN render_tool_result(m, d, c)
    ELSE IF is_local_command(d) THEN render_local_command(m, d, c)
    ELSE render_user_input(m, d, c)

\* SystemMessage.render
SystemRender(m, d, c) ==
    LET subtype == StrField(d.subtype)
        content == StrField(Field(d, "content"))
        pre_tokens == Get(Field(Field(d, "compactMetadata"), "preTokens"), IntVal(0))
    IN  Returns(
            <<HeaderBlock("SYSTEM (" \o subtype \o ")", 2, "U+25B8", "", {"system"})>>
            \o (IF subtype = "init"
                THEN <<KeyValueBlock("Model", StrField(Field(d, "model")), 1),
                       KeyValueBlock("Version", StrField(Field(d, "claude_code_version")), 1),
                       KeyValueBlock("Directory", StrField(Field(d, "cwd")), 1)>>
                ELSE IF subtype = "compact_boundary"
                THEN <<TextBlock(content \o " (" \o PyStr(pre_tokens)
                                    \o " tokens before compaction)", 1, {})>>
                ELSE IF content # "" THEN <<TextBlock(content, 1, {})>>
                ELSE <<>>)
            \o render_metadata(m, c) \o <<SpacerBlock(1)>>)

\* FileHistorySnapshot.render
FileHistorySnapshotRender(m, d, c) ==
    LET timestamp == Get(Field(Field(d, "snapshot"), "timestamp"), Str("unknown"))
    IN  Returns(<<HeaderBlock("File History Snapshot (" \o PyStr(timestamp) \o ")",
                              2, "U+1F4F8", "", {"system"}),
                  SpacerBlock(1)>>)

\* SummaryMessage.render
SummaryRender(m, d, c) ==
    Returns(<<HeaderBlock(StrField(Field(d, "summary")), 1, "U+1F4CB", "Summary:", {"info"}),
              SpacerBlock(1)>>)

\* QueueOperationMessage.render
QueueOperationRender(m, d, c) ==
    LET content == StrField(Field(d, "content"))
    IN  Returns(
            <<HeaderBlock("Queue: " \o StrField(Field(d, "operation")), 2, "U+2699", "",
                          {"system"})>>
            \o (IF content # "" THEN LineBlocks(content, 1, {}) ELSE <<>>)
            \o render_metadata(m, c) \o <<SpacerBlock(1)>>)

\* variant: the milliseconds are cut to whole seconds, not rounded
DurationTruncated(duration_ms) == ToString(duration_ms \div 1000) \o "s"

\* the Duration value: f"{(self.duration_ms + 500) // 1000}s"
Duration(duration_ms) == ToString((duration_ms + 500) \div 1000) \o "s"

\* ResultMessage.render; the record has no total_cost_usd and no usage, which
\* take their defaults 0.0 and {}
ResultRender(m, d, c) ==
    LET duration_ms == IF d.duration_ms.k = "absent" THEN 0 ELSE IntOf(d.duration_ms)
        num_turns == Get(Field(d, "num_turns"), IntVal(0))
    IN  Returns(
            <<DividerBlock("U+2550", 30),
              HeaderBlock("SESSION COMPLETE", 1, "", "", {"bold", "info"}),
              DividerBlock("U+2550", 30),
              KeyValueBlock("Status", StrField(d.subtype), 1),
              KeyValueBlock("Turns", PyStr(num_turns), 1),
              KeyValueBlock("Duration", Duration(duration_ms), 1),
              KeyValueBlock("Cost", "$" \o "0.0000", 1),
              KeyValueBlock("Tokens", "in=0 out=0 cache=0", 1)>>
            \o render_metadata(m, c) \o <<SpacerBlock(1)>>)

\* msg.render(config): the method of the message's class
Render(m, d, c) ==
    CASE m.variant = "BaseMessage" -> Returns(BaseRender(m))
      [] m.variant = "AssistantMessage" -> AssistantRender(m, d, c)
      [] m.variant = "UserMessage" -> UserRender(m, d, c)
      [] m.variant = "SystemMessage" -> SystemRender(m, d, c)
      [] m.variant = "FileHistorySnapshot" -> FileHistorySnapshotRender(m, d, c)
      [] m.variant = "SummaryMessage" -> SummaryRender(m, d, c)
      [] m.variant = "QueueOperationMessage" -> QueueOperationRender(m, d, c)
      [] m.variant = "ResultMessage" -> ResultRender(m, d, c)

(***************************************************************************)
(* Formatters (formatters.py).  The escape character of an ANSI code is    *)
(* written "U+001B", the backquote of a Markdown fence "U+0060".           *)
(***************************************************************************)
\* s * n
Repeat(s, n) == JoinStr("", [i \in 1..n |-> s])

\* variant: only the first line gets the prefix
_indentFirstLineOnly(text, level) ==
    IF level <= 0 THEN text ELSE Repeat("  ", level) \o text

\* Formatter._indent
_indent(text, level) ==
    IF level <= 0 THEN text
    ELSE LET prefix == Repeat("  ", level)
             lines == Split[text]
         IN  JoinStr("\n", [i \in 1..Len(lines) |-> prefix \o lines[i]])

\* " ".join(parts) over the parts that are not empty, the text always
HeaderParts(parts, text) ==
    JoinStr(" ", SelectSeq(parts, LAMBDA part : part # "") \o <<text>>)

\* the handlers of ANSIFormatter; `order` is the order in which a set of
\* styles is iterated
ANSIFormatter(block, order) ==
    LET RESET == "U+001B[0m"
        STYLE_MAP == [bold |-> "U+001B[1m", dim |-> "U+001B[2m", italic |-> "U+001B[3m",
                      error |-> "U+001B[31m", success |-> "U+001B[32m",
                      warning |-> "U+001B[33m", info |-> "U+001B[36m",
                      user |-> "U+001B[32m", assistant |-> "", system |-> "U+001B[34m",
                      tool |-> "U+001B[33m", thinking |-> "U+001B[2m" \o "U+001B[3m",
                      metadata |-> "U+001B[2m"]
        _apply_styles(text, styles) ==
            LET iterated == SelectSeq(order, LAMBDA s : s \in styles)
                codes == JoinStr("", [i \in 1..Len(iterated) |-> STYLE_MAP[iterated[i]]])
            IN  IF styles = {} THEN text
                ELSE IF codes # "" THEN codes \o text \o RESET
                ELSE text
    IN  CASE block.kind = "header" ->
                _apply_styles(HeaderParts(<<block.icon, block.prefix>>, block.text),
                              block.styles \cup {"bold"})
          [] block.kind = "text" ->
                _indent(_apply_styles(block.text, block.styles), block.indent)
          [] block.kind = "code" ->
                _indent(_apply_styles(block.content, block.styles), block.indent)
          [] block.kind = "keyvalue" ->
                _indent(_apply_styles(block.key \o ":", {"bold"}) \o " "
                            \o _apply_styles(block.value, block.styles), block.indent)
          [] block.kind = "divider" ->
                _apply_styles(Repeat(block.char, block.width), block.styles)
          [] block.kind = "list" ->
                _indent(_apply_styles(
                            JoinStr("\n", [i \in 1..Len(block.items) |->
                                            block.bullet \o " " \o block.items[i]]),
                            block.styles), block.indent)

\* the handlers of MarkdownFormatter
MarkdownFormatter(block) ==
    LET _apply_styles(text, styles) ==
            LET bolded == IF "bold" \in styles THEN "**" \o text \o "**" ELSE text
            IN  IF "italic" \in styles \/ "thinking" \in styles
                THEN "*" \o bolded \o "*" ELSE bolded
        hashes == Repeat("#", IF block.level < 6 THEN block.level ELSE 6)
        \* three backquotes
        fence == Repeat("U+0060", 3)
    IN  CASE block.kind = "header" ->
                IF block.level = 1 THEN hashes \o " " \o block.text
                ELSE hashes \o " " \o HeaderParts(<<block.icon, block.prefix>>, block.text)
          [] block.kind = "text" ->
                _indent(_apply_styles(block.text, block.styles), block.indent)
          [] block.kind = "code" ->
                _indent(fence \o block.language \o "\n" \o block.content \o "\n" \o fence,
                        block.indent)
          [] block.kind = "keyvalue" ->
                _indent("**" \o block.key \o ":** " \o block.value, block.indent)
          [] block.kind = "divider" -> "---"
          [] block.kind = "list" ->
                _indent(JoinStr("\n", [i \in 1..Len(block.items) |-> "- " \o block.items[i]]),
                        block.indent)

\* the handlers of PlainFormatter
PlainFormatter(block) ==
    CASE block.kind = "header" -> HeaderParts(<<block.prefix>>, block.text)
      [] block.kind = "text" -> _indent(block.text, block.indent)
      [] block.kind = "code" -> _indent(block.content, block.indent)
      [] block.kind = "keyvalue" -> _indent(block.key \o ": " \o block.value, block.indent)
      [] block.kind = "divider" -> Repeat(block.char, block.width)
      [] block.kind = "list" ->
            _indent(JoinStr("\n", [i \in 1..Len(block.items) |->
                                    block.bullet \o " " \o block.items[i]]),
                    block.indent)

RECURSIVE format(_, _, _)

\* Formatter.format_block, with the handlers the three classes share; a block
\* whose class is not in _block_handlers gives ""
format_block(f, order, block) ==
    CASE block.kind = "nested" -> _indent(format(f, order, block.children), block.indent)
      [] block.kind = "spacer" -> Repeat("\n", block.lines - 1)
      [] block.kind \in {"header", "text", "code", "keyvalue", "divider", "list"} ->
            (CASE f = "ansi" -> ANSIFormatter(block, order)
               [] f = "markdown" -> MarkdownFormatter(block)
               [] f = "plain" -> PlainFormatter(block))
      [] OTHER -> ""

\* variant: every result is joined, the empty ones too
formatKeepsEmpty(f, order, bs) ==
    JoinStr("\n", [i \in 1..Len(bs) |-> format_block(f, order, bs[i])])

\* Formatter.format
format(f, order, bs) ==
    JoinStr("\n", SelectSeq([i \in 1..Len(bs) |-> format_block(f, order, bs[i])],
                            LAMBDA formatted : formatted # ""))

(***************************************************************************)
(* The command line (cli.py)                                               *)
(***************************************************************************)
\* parse_args: argparse over the flags given, the later of two flags with
\* the same dest winning; an option that is not given keeps its default
\* (None for the append options, written <<>>)
parse_args(av) ==
    LET defaults ==
            [parsed |-> TRUE, format |-> "None",
             show_thinking |-> TRUE, show_tool_results |-> TRUE, show_metadata |-> FALSE,
             line_numbers |-> FALSE, compact |-> FALSE,
             show_types |-> <<>>, show_subtypes |-> <<>>, show_tools |-> <<>>,
             grep_patterns |-> <<>>, exclude_patterns |-> <<>>]
        value(arg) == SubSeq(arg, Find(arg, "=") + 1, Len(arg))
        namespace[i \in 0..Len(av)] ==
            IF i = 0 THEN defaults
            ELSE CASE av[i] = "--show-thinking" -> [namespace[i - 1] EXCEPT !.show_thinking = TRUE]
                   [] av[i] = "--hide-thinking" -> [namespace[i - 1] EXCEPT !.show_thinking = FALSE]
                   [] av[i] = "--show-tool-results" ->
                        [namespace[i - 1] EXCEPT !.show_tool_results = TRUE]
                   [] av[i] = "--hide-tool-results" ->
                        [namespace[i - 1] EXCEPT !.show_tool_results = FALSE]
                   [] av[i] = "--show-metadata" -> [namespace[i - 1] EXCEPT !.show_metadata = TRUE]
                   [] av[i] = "--hide-metadata" -> [namespace[i - 1] EXCEPT !.show_metadata = FALSE]
                   [] av[i] = "--line-numbers" -> [namespace[i - 1] EXCEPT !.line_numbers = TRUE]
                   [] av[i] = "--compact" -> [namespace[i - 1] EXCEPT !.compact = TRUE]
                   [] StartsWith(av[i], "--show-type=") ->
                        [namespace[i - 1] EXCEPT !.show_types = Append(@, value(av[i]))]
                   [] StartsWith(av[i], "--format=") ->
                        [namespace[i - 1] EXCEPT !.format = value(av[i])]
    IN  namespace[Len(av)]

(***************************************************************************)
(* Bounds and the inputs the model enumerates                              *)
(***************************************************************************)
\* longest message.content list
MaxItems == 2

\* records after the first that a stream run processes
MaxRecords == 2

Rec(type, uuid, timestamp, sessionId, subtype, message, toolUseResult, duration_ms) ==
    [type |-> type, uuid |-> uuid, timestamp |-> timestamp, sessionId |-> sessionId,
     subtype |-> subtype, message |-> message, toolUseResult |-> toolUseResult,
     duration_ms |-> duration_ms]

\* a record holding nothing but its type
Minimal(t) == Rec(Str(t), Absent, Absent, Absent, Absent, NoMessage, Absent, Absent)

\* the `type` values of the records: the seven record types of a session log,
\* an unknown one, the empty string, a missing key and non-string values
TypeValues ==
    {Str(t) : t \in {"assistant", "user", "system", "file-history-snapshot",
                     "summary", "queue-operation", "result", "foo", ""}}
        \cup {Absent, Num("5"), Null, List("[1]")}

\* records for parsing: every type value with well- and ill-typed fields
ParseRecords ==
    {Rec(t, u, ts, sid, st, m, tur, dur) :
        t \in TypeValues,
        u \in {Absent, Str("u1"), Num("5")},
        ts \in {Absent, Str("t1")},
        sid \in {Absent, Str("s1"), Null},
        st \in {Absent},
        m \in {NoMessage, DictMessage(NoContent), OtherMessage("null")},
        tur \in {Absent, Dict("{\"a\": 1}"), List("[1]")},
        dur \in {Absent, Num("1499"), Str("fast"), Str("1500")}}

ItemChoices ==
    {NonDictItem,
     Item(Str("text"), Absent),
     Item(Str("tool_use"), Str("Bash")),
     Item(Str("tool_use"), Str("Read")),
     Item(Absent, Str("Bash")),
     Item(List("[1]"), Absent),
     Item(Str("tool_use"), Dict("{}"))}

ItemLists == UNION {[1..n -> ItemChoices] : n \in 0..MaxItems}

Messages ==
    {NoMessage, OtherMessage("null"), DictMessage(NoContent), DictMessage(StrContent("café"))}
        \cup {DictMessage(ListContent(l)) : l \in ItemLists}

SubtypeValues == {Absent, Str(""), Str("init"), Str("stop"), Num("5"), Null, List("[1]")}

FilterTypes == {"assistant", "user", "system", "foo"}

\* records for filtering: every subtype value on a few messages, and every
\* message without a subtype
FilterRecords ==
    {Rec(Str(t), Absent, Absent, Absent, st, m, Absent, Absent) :
        t \in FilterTypes, st \in SubtypeValues,
        m \in {NoMessage, DictMessage(ListContent(<<Item(Str("text"), Absent)>>))}}
    \cup
    {Rec(Str(t), Absent, Absent, Absent, Absent, m, Absent, Absent) :
        t \in FilterTypes, m \in Messages}

\* RenderConfig with the filter fields set
Filters(types, subtypes, tools, grep, exclude) ==
    [DefaultConfig EXCEPT !.show_types = types, !.show_subtypes = subtypes,
                          !.show_tools = tools, !.grep_patterns = grep,
                          !.exclude_patterns = exclude]

PatternLists ==
    {<<>>, <<"Bash">>, <<"zzz", "\"type\": \"user\"">>, <<"é">>, <<"\\u00e9", "ool_use\", \"name\": \"Re">>, <<"">>}

FilterConfigs ==
    {Filters(ty, {}, {}, <<>>, <<>>) :
        ty \in {{}, {"assistant"}, DefaultConfig.show_types, {"user", "foo"}}}
    \cup
    {Filters(ty, st, {}, <<>>, <<>>) :
        ty \in {{}, DefaultConfig.show_types},
        st \in {{"text"}, {"init"}, {"tool_use", "stop"}}}
    \cup
    {Filters(ty, {}, tl, <<>>, <<>>) :
        ty \in {{}, DefaultConfig.show_types}, tl \in {{"Bash"}, {"Read", "Write"}}}
    \cup
    {Filters({}, {}, {}, g, x) : g \in PatternLists, x \in PatternLists}
    \cup
    {Filters({"assistant", "user"}, {"tool_use", "init"}, {"Bash"}, g, x) :
        g \in {<<>>, <<"Bash">>}, x \in {<<>>, <<"Read">>, <<"Bash">>}}

\* the inputs of the repeated-invocation runs
PureRecords ==
    {Minimal("foo")} \cup
    {Rec(Str(t), Absent, Absent, Absent, Absent, m, Absent, Absent) :
        t \in {"assistant", "user"},
        m \in {NoMessage,
               DictMessage(ListContent(<<Item(Str("text"), Absent)>>)),
               DictMessage(ListContent(<<Item(Str("tool_use"), Str("Bash"))>>))}}

PureConfigs ==
    {Filters({}, {"text"}, {}, <<>>, <<>>),
     Filters({}, {}, {"Bash"}, <<>>, <<>>),
     Filters({"assistant"}, {"tool_use"}, {"Bash"}, <<"Bash">>, <<"zzz">>)}

\* lines past the preview limit in the longest tool result content
MaxExtraLines == 2

\* longest duration_ms of a result record
MaxDurationMs == 2500

\* a content item: a JSON object with its "type" and the given other keys
ContentItem(type, fields) ==
    fields @@ [k |-> "dict", s |-> "", type |-> Str(type), name |-> Absent]

\* a result record of the given duration
ResultRecord(duration_ms) ==
    Rec(Str("result"), Absent, Absent, Absent, Str("success"), NoMessage, Absent, duration_ms)

\* records for rendering, over
\*   tool_result items: contents of every length up to past the preview limit,
\*     as a string and as a list of text sub-items, an empty content, image
\*     sub-items, the error flag, and ill-typed fields;
\*   the other content items, well- and ill-typed;
\*   message.usage: missing, token counts, null, a count that is not a number;
\*   toolUseResult: missing, null, a string, an object without and with an
\*     agentId (its content and totalTokens well- and ill-typed), a list
RenderRecords ==
    LET
        \* a text of n numbered lines
        NLines(n) == JoinStr("\n", [i \in 1..n |-> "L" \o ToString(i)])

        \* tool_result items: contents of every length up to past the preview limit,
        \* as a string and as a list of text sub-items, an empty content, image
        \* sub-items, the error flag, and ill-typed fields
        ToolResultItems ==
            {ContentItem("tool_result", [tool_use_id |-> Str("t1"), content |-> Str(NLines(n))]) :
                n \in 1..(TOOL_RESULT_PREVIEW_LINES + MaxExtraLines)}
            \cup
            {ContentItem("tool_result",
                [content |-> ListContent([i \in 1..n |->
                                ContentItem("text", [text |-> Str("L" \o ToString(i))])])]) :
                n \in {0, 1} \cup ((TOOL_RESULT_PREVIEW_LINES - 1)
                                    ..(TOOL_RESULT_PREVIEW_LINES + MaxExtraLines))}
            \cup
            {ContentItem("tool_result", [tool_use_id |-> Str("t1"), content |-> Str(""),
                                         is_error |-> Bool(TRUE)]),
             ContentItem("tool_result", [tool_use_id |-> Str("t1")]),
             ContentItem("tool_result", [content |-> Str("boom"), is_error |-> Bool(TRUE)]),
             ContentItem("tool_result",
                [content |-> ListContent(<<ContentItem("text", [text |-> Str("a\nb")]),
                                           ContentItem("image",
                                                [source |-> [k |-> "dict", s |-> "",
                                                             media_type |-> Str("image/png")]]),
                                           ContentItem("image", [source |-> Dict("{}")])>>)]),
             ContentItem("tool_result", [content |-> Null]),
             ContentItem("tool_result", [content |-> Str("x"), is_error |-> Null]),
             ContentItem("tool_result", [tool_use_id |-> Num("5"), content |-> Str("x")]),
             ContentItem("tool_result",
                [content |-> ListContent(<<ContentItem("tool_reference", [text |-> Str("x")])>>)])}

        \* the other content items, well- and ill-typed
        OtherItems ==
            {NonDictItem,
             Item(Absent, Absent),
             ContentItem("other", [text |-> Str("hi")]),
             ContentItem("text", [text |-> Str("hi")]),
             ContentItem("text", [text |-> Str("a\n\nb")]),
             ContentItem("text", [k |-> "dict"]),
             ContentItem("text", [text |-> Num("5")]),
             ContentItem("thinking", [thinking |-> Str("plan\nstep"), signature |-> Str("sig0")]),
             ContentItem("thinking", [thinking |-> Str(""), signature |-> Str("sig0")]),
             ContentItem("thinking", [thinking |-> Null, signature |-> Str("sig0")]),
             ContentItem("tool_use", [name |-> Str("Bash"), id |-> Str("t1"),
                                      input |-> [k |-> "dict", s |-> "",
                                                 pairs |-> << <<"command", "ls">>, <<"cwd", "/">> >>]]),
             ContentItem("tool_use", [name |-> Str("Read")]),
             ContentItem("tool_use", [name |-> Dict("{}")]),
             ContentItem("image", [source |-> [k |-> "dict", s |-> "", media_type |-> Str("image/png")]]),
             ContentItem("image", [k |-> "dict"]),
             ContentItem("image", [source |-> Str("png")])}

        \* content lists: every item alone, and pairs of a few
        RenderItemLists ==
            {<<>>}
            \cup {<<item>> : item \in ToolResultItems \cup OtherItems}
            \cup {<<a, b>> : a, b \in
                    {NonDictItem,
                     ContentItem("text", [text |-> Str("hi")]),
                     ContentItem("thinking", [thinking |-> Str("plan\nstep"), signature |-> Str("sig0")]),
                     ContentItem("tool_result", [tool_use_id |-> Str("t1"), content |-> Str(NLines(2))]),
                     ContentItem("image", [source |-> Str("png")])}}

        \* message.usage: missing, token counts, null, a count that is not a number
        UsageValues ==
            {Absent, Null,
             [k |-> "dict", s |-> "", input_tokens |-> IntVal(5), output_tokens |-> IntVal(7)],
             [k |-> "dict", s |-> "", input_tokens |-> IntVal(0), output_tokens |-> IntVal(0),
              cache_read_input_tokens |-> IntVal(9)],
             [k |-> "dict", s |-> "", output_tokens |-> IntVal(3), cache_read_input_tokens |-> Null],
             [k |-> "dict", s |-> "", input_tokens |-> Str("many")],
             [k |-> "dict", s |-> "", output_tokens |-> Null]}

        \* toolUseResult: missing, null, a string, an object without and with an
        \* agentId (its content and totalTokens well- and ill-typed), a list
        ToolUseResults ==
            {Absent, Null, Str("ok"), Str(""), Dict("{}"), List("[1]"),
             [k |-> "dict", s |-> "", agentId |-> Null],
             [k |-> "dict", s |-> "", agentId |-> Str("a1"),
              content |-> ListContent(<<ContentItem("text", [text |-> Str("done")]), NonDictItem>>),
              totalTokens |-> IntVal(42)],
             [k |-> "dict", s |-> "", agentId |-> Str("a1")],
             [k |-> "dict", s |-> "", agentId |-> Str("a1"), totalTokens |-> Str("many")],
             [k |-> "dict", s |-> "", agentId |-> Str("a1"), totalTokens |-> Null],
             [k |-> "dict", s |-> "", agentId |-> Str("a1"), content |-> Null],
             [k |-> "dict", s |-> "", agentId |-> Str("a1"),
              content |-> ListContent(<<ContentItem("text", [text |-> Num("5")])>>)]}

        \* the "message" of a user record
        UserMessages ==
            {NoMessage, OtherMessage("null"), DictMessage(NoContent), DictMessage(StrContent("")),
             DictMessage(StrContent("hello\nworld")),
             DictMessage(StrContent("<command-name>/clear</command-name><command-args>now</command-args>")),
             DictMessage(StrContent("<command-name>/help</command-name>")),
             DictMessage(StrContent("<local-command-stdout>out\nput</local-command-stdout>")),
             DictMessage(ListContent(<<ContentItem("tool_result",
                                            [tool_use_id |-> Str("t1"), content |-> Str("ok")])>>)),
             DictMessage(ListContent(<<ContentItem("text", [text |-> Str("hi")]),
                                       ContentItem("tool_result", [content |-> Str(NLines(2))]),
                                       ContentItem("thinking", [thinking |-> Str("plan"),
                                                                signature |-> Str("sig0")]),
                                       ContentItem("image", [k |-> "dict"])>>)),
             DictMessage(ListContent(<<NonDictItem>>)),
             DictMessage(ListContent(<<ContentItem("text", [text |-> Num("5")])>>)),
             DictMessage(ListContent(<<ContentItem("tool_result", [content |-> Null])>>))}

        \* contents of slash-command records: tags in place, an empty name and
        \* empty args, a closing tag that is missing, one that stands before its
        \* opening tag, an opening tag that is missing, and two closing tags
        CommandContents ==
            {"<command-name>/x</command-name>\n<command-args>a b</command-args>",
             "<command-name></command-name><command-args></command-args>",
             "<command-name>/x",
             "<command-name>/x<command-args>a",
             "<command-name>/x</command-name></command-args>b<command-args>a</command-args>",
             "<command-name>/x</command-name>a</command-args>",
             "<command-name>/x</command-name>y</command-name><command-args>a</command-args>b</command-args>",
             "<command-args>a</command-args><command-name>/x</command-name>"}
    IN
        {Rec(Str("user"), Str("u1"), Absent, Absent, Absent, DictMessage(StrContent(content)),
             tur, Absent) : content \in CommandContents, tur \in {Absent, Null, Str("ok")}}
        \cup
        {Rec(Str("assistant"), Str("u1"), Absent, Str("s1"), Absent,
             DictMessage(ListContent(items)), Absent, Absent) : items \in RenderItemLists}
        \cup
        {Rec(Str("assistant"), Absent, Absent, Absent, Absent,
             [usage |-> usage] @@ DictMessage(ListContent(<<ContentItem("text", [text |-> Str("hi")])>>)),
             Absent, Absent) : usage \in UsageValues}
        \cup
        {[isSidechain |-> Bool(TRUE)] @@ Minimal("assistant")}
        \cup
        {Rec(Str("user"), Absent, Str("t1"), Absent, Absent, message, tur, Absent) :
            message \in UserMessages, tur \in ToolUseResults}
        \cup
        {Rec(Str("system"), Str("u1"), Absent, Absent, st, NoMessage, Absent, Absent) :
            st \in {Absent, Str("init"), Str("compact_boundary"), Num("5")}}
        \cup
        {[content |-> Str("compacted")] @@
            Rec(Str(t), Absent, Absent, Absent, st, NoMessage, Absent, Absent) :
            t \in {"system", "queue-operation"}, st \in {Absent, Str("compact_boundary")}}
        \cup
        {Minimal(t) : t \in {"file-history-snapshot", "summary", "queue-operation", "foo"}}
        \cup
        {ResultRecord(dur) : dur \in {Absent, Str("fast"), Str("1500"), IntVal(-1), IntVal(-501)}}

\* the visibility switches of RenderConfig
RenderConfigs ==
    {[DefaultConfig EXCEPT !.show_thinking = th, !.show_tool_results = tr,
                           !.show_metadata = md] : th, tr, md \in BOOLEAN}


\* longest block sequence handed to a formatter
MaxBlocks == 3

\* deepest indent of a block
MaxIndent == 2

\* longest input of process_stream, in lines
MaxLines == 3

\* longest command line, in flags
MaxArgs == 2

\* two of the orders in which a process may iterate a set of Style members
\* (the hash of a member varies with the process): every two styles are met
\* in both orders
StyleOrders ==
    LET declared == <<"bold", "dim", "italic", "error", "success", "warning", "info",
                      "user", "assistant", "system", "tool", "thinking", "metadata">>
    IN  {declared, [i \in 1..Len(declared) |-> declared[Len(declared) + 1 - i]]}

\* block sequences for formatting: every block kind, one-line, multi-line and
\* empty texts, every indent, spacers of one and two lines, nested blocks,
\* and a block of a class no formatter has a handler for
FormatInputs ==
    LET CodeBlock(content, language, indent) ==
            [kind |-> "code", content |-> content, language |-> language,
             indent |-> indent, styles |-> {}]
        ListBlock(items, indent, bullet) ==
            [kind |-> "list", items |-> items, indent |-> indent, bullet |-> bullet,
             styles |-> {}]
        NestedBlock(children, indent) ==
            [kind |-> "nested", children |-> children, indent |-> indent, styles |-> {}]
        Blocks ==
            {TextBlock("a\nb", k, {"bold", "info"}) : k \in 1..MaxIndent}
            \cup
            {TextBlock("hello", 0, {}), TextBlock("hello", 1, {}), TextBlock("", 0, {}),
             HeaderBlock("Title", 1, "*", "Sum:", {"info"}),
             CodeBlock("x\ny", "py", 1),
             KeyValueBlock("k", "v\nw", 2),
             DividerBlock("-", 3),
             ListBlock(<<"a", "b">>, 1, "*"),
             SpacerBlock(1),
             SpacerBlock(2),
             NestedBlock(<<TextBlock("in\nner", 1, {}), SpacerBlock(1), TextBlock("x", 0, {})>>, 1),
             NestedBlock(<<>>, 1),
             [kind |-> "render", styles |-> {}]}
        \* two blocks that carry the same style set, of every two kinds
        StyleSets == {{}, {"bold"}, {"italic"}, {"thinking"}, {"assistant"}, {"bold", "info"},
                      {"error", "success"}}
        Styled(styles) ==
            {[b EXCEPT !.styles = styles] :
                b \in {TextBlock("x", 0, {}), HeaderBlock("x", 2, "", "", {}),
                       CodeBlock("x", "", 0), KeyValueBlock("k", "x", 0),
                       DividerBlock("-", 3), ListBlock(<<"x">>, 0, "*")}}
        StyledPairs == UNION {Styled(styles) \X Styled(styles) : styles \in StyleSets}
    IN  UNION {[1..n -> Blocks] : n \in 0..MaxBlocks} \cup StyledPairs

\* inputs of process_stream: lines that are blank, not JSON, a JSON value
\* that is not an object, and records that are shown, filtered out, shown as
\* the fallback, and on which parse_message and render raise
StreamInputs ==
    LET json(d) == [kind |-> "json", data |-> d]
        Lines ==
            {[kind |-> "blank"], [kind |-> "invalid"],
             json(Num("5")),
             json(Rec(Str("user"), Absent, Absent, Absent, Absent,
                      DictMessage(StrContent("hello")), Absent, Absent)),
             json(Minimal("foo")),
             json(Rec(Str("user"), Absent, Absent, Absent, Absent, OtherMessage("null"),
                      Absent, Absent)),
             json(Rec(Absent, Absent, Absent, Absent, Absent, NoMessage, Absent, Absent)),
             json(Rec(Str("assistant"), Absent, Absent, Absent, Absent,
                      DictMessage(ListContent(<<NonDictItem>>)), Absent, Absent))}
    IN  UNION {[1..n -> Lines] : n \in 0..MaxLines}

\* command lines: the visibility flags, the shorthand, a type filter and a
\* format
ArgLists ==
    LET Flags == {"--compact", "--show-thinking", "--hide-thinking", "--show-tool-results",
                  "--hide-tool-results", "--show-metadata", "--hide-metadata",
                  "--line-numbers", "--show-type=system", "--format=markdown"}
    IN  UNION {[1..n -> Flags] : n \in 0..MaxArgs}

(***************************************************************************)
(* The state machine                                                       *)
(***************************************************************************)
NoFrame == [content_types |-> {}, tools_in_msg |-> {}]

\* no call of the watcher under way, nothing written or read yet
NoCall == [call |-> "none", gen |-> 0, lines |-> <<>>, new_position |-> 0]
NoHistory ==
    [writes |-> 0, start |-> 0, lines |-> <<>>, reads |-> <<>>, parsed |-> <<>>,
     shrunk |-> FALSE, created |-> FALSE]

\* the state of the parts of the program that are not under way; `busy`
\* names the parts the caller sets itself
Idle(busy) ==
    /\ IF "record" \in busy THEN TRUE
       ELSE /\ data = Absent
            /\ parsed = "none"
            /\ msg = NoMsg
            /\ ret = "none"
            /\ frame = NoFrame
            /\ rendered = FALSE
            /\ calls = {}
            /\ lines_left = 0
            /\ raised = "none"
            /\ item_renders = <<>>
    /\ IF "config" \in busy THEN TRUE ELSE config = DefaultConfig
    /\ IF "blocks" \in busy THEN TRUE ELSE blocks = <<>>
    /\ IF "format" \in busy THEN TRUE
       ELSE /\ formatter = "plain"
            /\ style_order = <<>>
            /\ output = [done |-> FALSE, text |-> "", parts |-> <<>>]
    /\ IF "stream" \in busy THEN TRUE
       ELSE /\ input = <<>>
            /\ tail_lines = 0
            /\ pc = "idle"
            /\ todo = <<>>
            /\ line_num = 0
            /\ stdout = <<>>
            /\ stderr = <<>>
    /\ IF "main" \in busy THEN TRUE
       ELSE /\ argv = <<>>
            /\ args = [parsed |-> FALSE]
            /\ main_pc = "idle"
    /\ IF "watch" \in busy THEN TRUE
       ELSE /\ file = [gen |-> 0, text |-> ""]
            /\ events = <<>>
            /\ file_positions = 0
            /\ watch_pc = "off"
            /\ watch_lines = NoCall
            /\ history = NoHistory

Start(d, c, n) ==
    /\ data = d
    /\ config = c
    /\ parsed = "none"
    /\ msg = NoMsg
    /\ ret = "none"
    /\ frame = NoFrame
    /\ rendered = FALSE
    /\ blocks = <<>>
    /\ calls = {}
    /\ lines_left = n
    /\ raised = "none"
    /\ item_renders = <<>>
    /\ Idle({"record", "config", "blocks"})

\* one record through the default configuration
InitParse == \E d \in ParseRecords : Start(d, DefaultConfig, 0)

\* one record through each filter configuration
InitFilter == \E d \in FilterRecords, c \in FilterConfigs : Start(d, c, 0)

\* a stream of records through one configuration
InitPure == \E d \in PureRecords, c \in PureConfigs : Start(d, c, MaxRecords)

\* one record through each setting of the visibility switches, and a result
\* record of every duration through the default configuration
InitRender ==
    \/ \E d \in RenderRecords, c \in RenderConfigs : Start(d, c, 0)
    \/ \E n \in 0..MaxDurationMs : Start(ResultRecord(IntVal(n)), DefaultConfig, 0)

\* msg = parse_message(data)
ParseMessage ==
    /\ parsed = "none"
    /\ LET r == parse_message(data) IN
        /\ parsed' = r.status
        /\ msg' = r.msg
    /\ UNCHANGED <<data, config, ret, frame, rendered, blocks, calls, lines_left, raised, item_renders>>
    /\ UNCHANGED <<format_vars, stream_vars, cli_vars, watch_vars>>

\* should_show_message(msg, data, config)
ShouldShowMessage ==
    /\ parsed = "ok"
    /\ ret = "none"
    /\ LET r == should_show_message(msg, data, config) IN
        /\ ret' = r.ret
        /\ frame' = r.frame
        /\ calls' = calls \cup {[msg |-> msg, data |-> data, config |-> config,
                                 result |-> Outcome(r.ret)]}
    /\ UNCHANGED <<data, config, parsed, msg, rendered, blocks, lines_left, raised, item_renders>>
    /\ UNCHANGED <<format_vars, stream_vars, cli_vars, watch_vars>>

\* msg.render(config) on the untyped fallback message
RenderBase ==
    /\ parsed = "ok"
    /\ msg.variant = "BaseMessage"
    /\ ~rendered
    /\ rendered' = TRUE
    /\ blocks' = BaseRender(msg)
    /\ UNCHANGED <<data, config, parsed, msg, ret, frame, calls, lines_left, raised, item_renders>>
    /\ UNCHANGED <<format_vars, stream_vars, cli_vars, watch_vars>>

\* msg.render(config) on a typed message
RenderMessage ==
    /\ parsed = "ok"
    /\ msg.variant # "BaseMessage"
    /\ ~rendered
    /\ raised = "none"
    /\ \E r \in {Render(msg, data, config)} :
        /\ rendered' = (r.status = "ok")
        /\ raised' = (IF r.status = "ok" THEN "none" ELSE r.status)
        /\ blocks' = r.blocks
        /\ item_renders' = r.parts
    /\ UNCHANGED <<data, config, parsed, msg, ret, frame, calls, lines_left>>
    /\ UNCHANGED <<format_vars, stream_vars, cli_vars, watch_vars>>

\* the caller's loop takes the next line once the filter has answered
NextRecord ==
    /\ lines_left > 0
    /\ Outcome(ret) \in {"True", "False"}
    /\ \E d \in PureRecords : data' = d
    /\ parsed' = "none"
    /\ msg' = NoMsg
    /\ ret' = "none"
    /\ rendered' = FALSE
    /\ blocks' = <<>>
    /\ lines_left' = lines_left - 1
    /\ UNCHANGED <<config, frame, calls, raised, item_renders>>
    /\ UNCHANGED <<format_vars, stream_vars, cli_vars, watch_vars>>

Next == ParseMessage \/ ShouldShowMessage \/ RenderBase

NextStream == Next \/ NextRecord

SpecParse == InitParse /\ [][Next]_vars

SpecFilter == InitFilter /\ [][Next]_vars

SpecPure == InitPure /\ [][NextStream]_vars

NextRender == ParseMessage \/ RenderBase \/ RenderMessage

SpecRender == InitRender /\ [][NextRender]_vars

\* formatter.format called on a block sequence
InitFormat ==
    \E bs \in FormatInputs, f \in {"ansi", "markdown", "plain"}, order \in StyleOrders :
        /\ blocks = bs
        /\ formatter = f
        /\ style_order = order
        /\ output = [done |-> FALSE, text |-> "", parts |-> <<>>]
        /\ Idle({"blocks", "format"})

\* output = formatter.format(blocks); `parts` keeps what format_block gave
\* for each block
FormatBlocks ==
    /\ ~output.done
    /\ output' = [done |-> TRUE,
                  text |-> format(formatter, style_order, blocks),
                  parts |-> [i \in 1..Len(blocks) |->
                                format_block(formatter, style_order, blocks[i])]]
    /\ UNCHANGED <<record_vars, formatter, style_order, stream_vars, cli_vars, watch_vars>>

SpecFormat == InitFormat /\ [][FormatBlocks]_vars

\* process_stream called on an input, with or without tail_lines and line
\* numbers
InitStream ==
    \E ls \in StreamInputs, n \in 0..2, numbers \in BOOLEAN, order \in StyleOrders :
        /\ config = [DefaultConfig EXCEPT !.show_line_numbers = numbers]
        /\ formatter = "plain"
        /\ style_order = order
        /\ output = [done |-> FALSE, text |-> "", parts |-> <<>>]
        /\ input = ls
        /\ tail_lines = n
        /\ pc = "start"
        /\ todo = <<>>
        /\ line_num = 0
        /\ stdout = <<>>
        /\ stderr = <<>>
        /\ Idle({"config", "format", "stream"})

\* process_stream up to its loop: lines_to_process and start_line_num
StartStream ==
    /\ pc = "start"
    /\ LET all_lines == Len(input)
           \* all_lines[-tail_lines:] starts at index len - tail_lines, at 0
           \* when that is negative
           first == IF tail_lines > 0
                    THEN (IF tail_lines > all_lines THEN 0 ELSE all_lines - tail_lines)
                    ELSE 0
           start_line_num == IF tail_lines > 0
                             THEN (IF all_lines - tail_lines > 0
                                   THEN all_lines - tail_lines ELSE 0)
                             ELSE 0
       IN  /\ todo' = [i \in 1..(all_lines - first) |-> first + i]
           /\ line_num' = start_line_num
           /\ pc' = IF all_lines - first = 0 THEN "done" ELSE "loop"
    /\ UNCHANGED <<record_vars, format_vars, input, tail_lines, stdout, stderr, cli_vars, watch_vars>>

\* one iteration of process_stream's loop
ProcessLine ==
    /\ pc = "loop"
    /\ LET at == Head(todo)
           line == input[at]
           go_on == IF Tail(todo) = <<>> THEN "done" ELSE "loop"
       IN  /\ line_num' = line_num + 1
           /\ todo' = Tail(todo)
           /\ IF line.kind = "blank"
              THEN pc' = go_on /\ UNCHANGED <<stdout, stderr>>
              ELSE IF line.kind = "invalid"
              THEN /\ stderr' = Append(stderr,
                        [at |-> at,
                         text |-> "warning: invalid JSON on line " \o ToString(line_num')])
                   /\ pc' = go_on
                   /\ UNCHANGED stdout
              ELSE \* data = json.loads(line); a value that is not an object has
                   \* no `get` (models.py, parse_message)
                   \E p \in {IF "type" \in DOMAIN line.data THEN parse_message(line.data)
                             ELSE [status |-> "AttributeError", msg |-> NoMsg]} :
                   \E shown \in {IF p.status = "ok"
                                 THEN should_show_message(p.msg, line.data, config).ret
                                 ELSE p.status} :
                   \E r \in {IF p.status = "ok" /\ Outcome(shown) = "True"
                             THEN Render(p.msg, line.data, config)
                             ELSE Raises(shown)} :
                   \E numbered \in {IF config.show_line_numbers
                                    THEN <<TextBlock("[" \o ToString(line_num') \o "]", 0,
                                                     {"metadata"})>> \o r.blocks
                                    ELSE r.blocks} :
                    /\ stdout' = IF r.status = "ok"
                                 THEN Append(stdout,
                                        [at |-> at,
                                         text |-> format(formatter, style_order, numbered)])
                                 ELSE stdout
                    /\ pc' = IF r.status = "ok" \/ (p.status = "ok" /\ Outcome(shown) = "False")
                             THEN go_on ELSE "raised"
                    /\ UNCHANGED stderr
    /\ UNCHANGED <<record_vars, format_vars, input, tail_lines, cli_vars, watch_vars>>

NextProcess == StartStream \/ ProcessLine

SpecStream == InitStream /\ [][NextProcess]_vars

\* main called with a command line
InitCli ==
    \E av \in ArgLists :
        /\ argv = av
        /\ args = [parsed |-> FALSE]
        /\ main_pc = "start"
        /\ Idle({"main"})

\* args = parse_args()
ParseArgs ==
    /\ main_pc = "start"
    /\ args' = parse_args(argv)
    /\ main_pc' = "parsed"
    /\ UNCHANGED <<record_vars, format_vars, stream_vars, argv, watch_vars>>

\* main from `config = RenderConfig()` to the choice of the formatter;
\* stdout is a terminal or not
Main ==
    /\ main_pc = "parsed"
    /\ LET compacted ==
            IF args.compact
            THEN [DefaultConfig EXCEPT !.show_metadata = FALSE, !.show_thinking = FALSE,
                                       !.show_tool_results = FALSE,
                                       !.show_types = {"assistant", "user"}]
            ELSE DefaultConfig
           ToSet(list) == {list[i] : i \in 1..Len(list)}
       IN  config' =
            [compacted EXCEPT
                !.show_thinking = args.show_thinking,
                !.show_tool_results = args.show_tool_results,
                !.show_metadata = args.show_metadata,
                !.show_line_numbers = args.line_numbers,
                !.show_types = IF args.show_types # <<>> THEN ToSet(args.show_types) ELSE @,
                !.show_subtypes = IF args.show_subtypes # <<>>
                                  THEN ToSet(args.show_subtypes) ELSE @,
                !.show_tools = IF args.show_tools # <<>> THEN ToSet(args.show_tools) ELSE @,
                !.grep_patterns = IF args.grep_patterns # <<>> THEN args.grep_patterns ELSE @,
                !.exclude_patterns = IF args.exclude_patterns # <<>>
                                     THEN args.exclude_patterns ELSE @]
    /\ \E isatty \in BOOLEAN :
        LET output_format == IF args.format = "None"
                             THEN (IF isatty THEN "ansi" ELSE "plain")
                             ELSE args.format
        IN  formatter' = IF output_format \in {"markdown", "plain"} THEN output_format
                         ELSE "ansi"
    /\ main_pc' = "configured"
    /\ UNCHANGED <<data, parsed, msg, ret, frame, rendered, blocks, calls, lines_left, raised,
                   item_renders, style_order, output, stream_vars, argv, args, watch_vars>>

NextMain == ParseArgs \/ Main

SpecCli == InitCli /\ [][NextMain]_vars

(***************************************************************************)
(* The watcher of a growing file (watcher.py): one tracked path, written   *)
(* by another process while the observer's thread handles the events       *)
(***************************************************************************)

\* the number of writes (appends, truncations) of the other process
MaxWrites == 2

\* The text of a record line stands for a JSON text: "{s}" for a summary
\* record, "{f}" for a record of the unknown type foo, "{c}" for an object
\* without a type; no other text of this alphabet is a JSON text
\* (json.loads raises JSONDecodeError)
loads(line) ==
    CASE line = "{s}" -> [ok |-> TRUE, data |-> Minimal("summary")]
      [] line = "{f}" -> [ok |-> TRUE, data |-> Minimal("foo")]
      [] line = "{c}" -> [ok |-> TRUE,
                          data |-> Rec(Absent, Absent, Absent, Absent, Absent, NoMessage,
                                       Absent, Absent)]
      [] OTHER -> [ok |-> FALSE, data |-> Absent]

\* f.seek(position); new_content = f.read(); new_position = f.tell(),
\* reading from the start instead of from the recorded position
read_fromStart(text, position) ==
    [content |-> text, tell |-> Len(text)]

\* f.seek(position); new_content = f.read(); new_position = f.tell(): a
\* position beyond the end reads nothing and stays where it is
read_from(text, position) ==
    [content |-> IF position >= Len(text) THEN ""
                 ELSE SubSeq(text, position + 1, Len(text)),
     tell |-> IF position > Len(text) THEN position ELSE Len(text)]

\* content.split("\n"), each line with the offset in the file at which it
\* starts, the content starting at offset base
LinesAt(content, base) ==
    LET pieces == Split[content]
        start[i \in 1..Len(pieces)] ==
            IF i = 1 THEN base ELSE start[i - 1] + Len(pieces[i - 1]) + 1
    IN  [i \in 1..Len(pieces) |-> [start |-> start[i], text |-> pieces[i]]]

\* f.readlines() and tail = lines[-n:] if n < len(lines) else lines: a text
\* that ends with a newline has no empty last line
tail_of(text, n) ==
    LET split == LinesAt(text, 0)
        lines == IF split[Len(split)].text = "" THEN SubSeq(split, 1, Len(split) - 1)
                 ELSE split
    IN  IF n < Len(lines) THEN SubSeq(lines, Len(lines) - n + 1, Len(lines)) ELSE lines

\* the other process is in the middle of a line
MidLine == file.text # "" /\ SubSeq(file.text, Len(file.text), Len(file.text)) # "\n"

\* watch_path on a file (no file headers): the watcher constructed, positions at the end of the file
\* without --lines, process_tail_lines called with it
InitWatch ==
    \E text \in {"", "{s}\n", "{f}\n{s}\n"}, n \in 0..1, order \in StyleOrders :
        /\ config = DefaultConfig
        /\ formatter = "plain"
        /\ style_order = order
        /\ output = [done |-> FALSE, text |-> "", parts |-> <<>>]
        /\ tail_lines = n
        /\ stdout = <<>>
        /\ stderr = <<>>
        /\ input = <<>>
        /\ pc = "idle"
        /\ todo = <<>>
        /\ line_num = 0
        /\ file = [gen |-> 0, text |-> text]
        /\ events = <<>>
        /\ file_positions = IF n <= 0 THEN Len(text) ELSE 0
        /\ watch_pc = IF n <= 0 THEN "idle" ELSE "tail"
        /\ watch_lines = NoCall
        /\ history = [NoHistory EXCEPT !.start = Len(text)]
        /\ Idle({"config", "format", "stream", "watch"})

\* the observer runs once the initial files are handled (watch_path)
Watching ==
    /\ watch_pc # "off"
    /\ watch_pc # "tail"
    /\ ~(watch_pc = "lines" /\ watch_lines.call = "tail")

\* the other process appends: a whole record line, the first part of one,
\* or the rest of the line it began; the observer queues the events of the
\* write, which the operating system may report once or twice (a
\* modification and the closing of the file)
WriterAppends ==
    /\ Watching
    /\ history.writes < MaxWrites
    /\ \E chunk \in (IF MidLine THEN {"}\n"} ELSE {"{s}\n", "{f}\n", "{c}\n", "{s"}) :
        LET text == file.text \o chunk
            ends == {i \in 1..Len(file.text) : SubSeq(file.text, i, i) = "\n"}
            \* the offset at which the line under way starts
            from == IF ends = {} THEN 0 ELSE CHOOSE i \in ends : \A j \in ends : j <= i
        IN  /\ file' = [file EXCEPT !.text = text]
            /\ history' =
                 [history EXCEPT
                    !.writes = @ + 1,
                    !.lines = IF SubSeq(chunk, Len(chunk), Len(chunk)) = "\n"
                              THEN Append(@, [gen |-> file.gen, start |-> from,
                                              text |-> SubSeq(text, from + 1, Len(text) - 1)])
                              ELSE @]
    /\ \E times \in 1..2 : events' = events \o [i \in 1..times |-> "modified"]
    /\ UNCHANGED <<record_vars, format_vars, stream_vars, cli_vars, file_positions, watch_pc,
                   watch_lines>>

\* the other process empties the file: in place (a modification), or by
\* removing it and creating it again (a creation)
WriterTruncates ==
    /\ Watching
    /\ history.writes < MaxWrites
    /\ file.text # ""
    /\ ~MidLine
    /\ \E kind \in {"modified", "created"} :
        /\ \E times \in 1..2 : events' = events \o [i \in 1..times |-> kind]
        /\ history' = [history EXCEPT !.writes = @ + 1, !.shrunk = TRUE,
                                      !.created = @ \/ kind = "created"]
    /\ file' = [gen |-> file.gen + 1, text |-> ""]
    /\ UNCHANGED <<record_vars, format_vars, stream_vars, cli_vars, file_positions, watch_pc,
                   watch_lines>>

\* process_new_lines up to the call of _process_lines, the recorded
\* position being position
EntersNewLines(position) ==
    \E r \in {read_from(file.text, position)} :
        /\ history' = [history EXCEPT !.reads =
                         Append(@, [call |-> "new_lines", gen |-> file.gen,
                                    from |-> position, to |-> r.tell,
                                    size |-> Len(file.text), content |-> r.content])]
        /\ IF r.content # ""
           THEN /\ watch_lines' = [call |-> "new_lines", gen |-> file.gen,
                                   lines |-> LinesAt(r.content, position),
                                   new_position |-> r.tell]
                /\ watch_pc' = "lines"
                /\ file_positions' = position
           ELSE /\ file_positions' = r.tell
                /\ UNCHANGED <<watch_pc, watch_lines>>

\* JSONLEventHandler.on_modified: process_new_lines(path)
OnModified ==
    /\ watch_pc = "idle"
    /\ events # <<>>
    /\ Head(events) = "modified"
    /\ events' = Tail(events)
    /\ EntersNewLines(file_positions)
    /\ UNCHANGED <<record_vars, format_vars, stream_vars, cli_vars, file>>

\* JSONLEventHandler.on_created: file_positions[path] = 0, then
\* process_new_lines(path)
OnCreated ==
    /\ watch_pc = "idle"
    /\ events # <<>>
    /\ Head(events) = "created"
    /\ events' = Tail(events)
    /\ EntersNewLines(0)
    /\ UNCHANGED <<record_vars, format_vars, stream_vars, cli_vars, file>>

\* process_tail_lines up to the call of _process_lines: the position is
\* recorded before the lines are processed
ProcessTail ==
    /\ watch_pc = "tail"
    /\ \E tail \in {tail_of(file.text, tail_lines)} :
        /\ file_positions' = Len(file.text)
        /\ history' = [history EXCEPT !.reads =
                         Append(@, [call |-> "tail", gen |-> file.gen,
                                    from |-> IF tail = <<>> THEN Len(file.text)
                                             ELSE tail[1].start,
                                    to |-> Len(file.text), size |-> Len(file.text),
                                    content |-> IF tail = <<>> THEN ""
                                                ELSE SubSeq(file.text, tail[1].start + 1,
                                                            Len(file.text))])]
        /\ watch_lines' = [call |-> "tail", gen |-> file.gen, lines |-> tail,
                           new_position |-> Len(file.text)]
        /\ watch_pc' = IF tail = <<>> THEN "idle" ELSE "lines"
    /\ UNCHANGED <<record_vars, format_vars, stream_vars, cli_vars, file, events>>

\* one iteration of _process_lines and, after the last one, the end of the
\* call: process_new_lines records new_position. An exception other than
\* JSONDecodeError leaves the call (and ends the thread that made it) before
\* the position is recorded.
WatchLine ==
    /\ watch_pc = "lines"
    /\ LET line == Head(watch_lines.lines)
           last == Tail(watch_lines.lines) = <<>>
           go_on == IF last THEN "idle" ELSE "lines"
           returned == IF last THEN watch_lines.new_position ELSE file_positions
           entry(status) == [gen |-> watch_lines.gen, start |-> line.start,
                             text |-> line.text, status |-> status]
       IN  /\ watch_lines' = [watch_lines EXCEPT !.lines = Tail(@)]
           /\ IF line.text = ""
              THEN /\ watch_pc' = go_on
                   /\ file_positions' = returned
                   /\ UNCHANGED <<stdout, stderr, history>>
              ELSE \E decoded \in {loads(line.text)} :
                   IF ~decoded.ok
                   THEN /\ stderr' = Append(stderr,
                             [at |-> line.start,
                              text |-> "warning: skipping invalid JSON: "
                                       \o SubSeq(line.text, 1,
                                                 IF Len(line.text) < 50
                                                 THEN Len(line.text) ELSE 50)
                                       \o "..."])
                        /\ watch_pc' = go_on
                        /\ file_positions' = returned
                        /\ history' = [history EXCEPT !.parsed = Append(@, entry("invalid"))]
                        /\ UNCHANGED stdout
                   ELSE \E p \in {parse_message(decoded.data)} :
                        \E shown \in {IF p.status = "ok"
                                      THEN should_show_message(p.msg, decoded.data, config).ret
                                      ELSE p.status} :
                        \E r \in {IF p.status = "ok" /\ Outcome(shown) = "True"
                                  THEN Render(p.msg, decoded.data, config)
                                  ELSE Raises(shown)} :
                         /\ stdout' = IF r.status = "ok"
                                      THEN Append(stdout,
                                             [at |-> line.start,
                                              text |-> format(formatter, style_order,
                                                              r.blocks)])
                                      ELSE stdout
                         /\ IF r.status = "ok" \/ (p.status = "ok" /\ Outcome(shown) = "False")
                            THEN /\ watch_pc' = go_on
                                 /\ file_positions' = returned
                                 /\ history' = [history EXCEPT !.parsed =
                                       Append(@, entry(IF r.status = "ok" THEN "shown"
                                                       ELSE "skipped"))]
                            ELSE /\ watch_pc' = "dead"
                                 /\ history' = [history EXCEPT !.parsed =
                                                  Append(@, entry("raised"))]
                                 /\ UNCHANGED file_positions
                         /\ UNCHANGED stderr
    /\ UNCHANGED <<record_vars, format_vars, input, tail_lines, pc, todo, line_num, cli_vars,
                   file, events>>

NextWatch ==
    WriterAppends \/ WriterTruncates \/ OnModified \/ OnCreated \/ ProcessTail \/ WatchLine

SpecWatch == InitWatch /\ [][NextWatch]_vars

Spec == SpecParse

(***************************************************************************)
(* Properties of parse_message (checked under SpecParse)                   *)
(***************************************************************************)
\* the one block BaseMessage.render is documented to give for a type string
UnknownTypeBlocks(t) ==
    /\ Len(blocks) = 1
    /\ blocks[1].kind = "text"
    /\ blocks[1].text = "[Unknown message type: " \o t \o "]"

\* the type string of a record, "" when the key is missing
TypeString(d) == IF d.type.k = "str" THEN d.type.s ELSE ""

IsKnownType(d) ==
    /\ d.type.k = "str"
    /\ d.type.s \in {"assistant", "user", "system", "file-history-snapshot",
                    "summary", "queue-operation", "result"}

\* C1: parse_message returns a message and never raises, whatever the keys
\* and value types of the decoded JSON object.
C1_ParseNeverRaises == parsed \in {"none", "ok"}

\* C2: when `type` is absent or a string outside the seven discriminants,
\* parse_message returns the fallback message whose type is the original type
\* string ("" when absent), and render gives the single text block
\* "[Unknown message type: {type}]".
C2_UnknownTypeFallback ==
    (/\ parsed # "none"
     /\ data.type.k \in {"absent", "str"}
     /\ ~IsKnownType(data))
    => /\ parsed = "ok"
       /\ msg.variant = "BaseMessage"
       /\ msg.type = TypeString(data)
       /\ rendered => UnknownTypeBlocks(TypeString(data))

\* C3: when `type` is a known discriminant and the other fields fail typed
\* construction, parse_message returns the untyped fallback carrying the
\* record's type, uuid, timestamp and sessionId, and render gives the single
\* text block "[Unknown message type: {type}]".
C3_KnownTypeFallback ==
    (/\ parsed # "none"
     /\ IsKnownType(data)
     /\ ~TypedOK(data))
    => /\ parsed = "ok"
       /\ msg.variant = "BaseMessage"
       /\ msg.type = data.type.s
       /\ data.uuid.k # "absent" => msg.uuid = data.uuid.s
       /\ data.timestamp.k # "absent" => msg.timestamp = data.timestamp.s
       /\ data.sessionId.k # "absent" => msg.sessionId = data.sessionId.s
       /\ rendered => UnknownTypeBlocks(data.type.s)

\* C4: for each of the seven discriminants, a minimal well-formed record of
\* that type parses to the corresponding typed variant, not the fallback, and
\* its type field equals the discriminant.
C4_MinimalTyped ==
    \A t \in {"assistant", "user", "system", "file-history-snapshot",
              "summary", "queue-operation", "result"} :
        (parsed # "none" /\ data = Minimal(t))
        => /\ parsed = "ok"
           /\ msg.variant # "BaseMessage"
           /\ msg.variant = VariantOf(t)
           /\ msg.type = t

C4_Witness ==
    /\ parsed = "ok"
    /\ data = Minimal("queue-operation")
    /\ msg.variant = "QueueOperationMessage"
    /\ msg.type = "queue-operation"

(***************************************************************************)
(* Properties of should_show_message (checked under SpecFilter)            *)
(***************************************************************************)
Returned == ret # "none"
Accepted == Outcome(ret) = "True"
Rejected == Outcome(ret) = "False"

\* the statements of each rule at which the function can leave
TypeExits == {"L23"}
SubtypeExits == {"AttributeError30", "TypeError34", "L36", "TypeError37", "L38"}
ToolExits == {"AttributeError43", "TypeError47", "L49", "L51"}

\* the items of the raw record's message.content list (none without a list)
RawItems(d) ==
    IF d.message.k = "dict" /\ d.message.content.k = "list"
    THEN d.message.content.items ELSE <<>>

OnlyTypes(types) == Filters(types, {}, {}, <<>>, <<>>)

\* C5: a message is rejected whenever show_types is non-empty and its type is
\* not a member; with show_types = {"assistant"} and no other filter exactly
\* the assistant messages are accepted; with show_types empty the type rule
\* rejects nothing.
C5_TypeFilter ==
    Returned =>
        /\ (config.show_types # {} /\ msg.type \notin config.show_types) => Rejected
        /\ config = OnlyTypes({"assistant"}) =>
               /\ msg.type = "assistant" => Accepted
               /\ msg.type # "assistant" => Rejected
        /\ config.show_types = {} => ret \notin TypeExits

C5_Witness ==
    /\ config = OnlyTypes({"assistant"})
    /\ msg.type = "user"
    /\ ret = "L23"

\* C6 as stated: with show_subtypes non-empty, every non-assistant message
\* whose raw record has a `subtype` that is not a member of show_subtypes is
\* rejected, whatever the value (the empty string included), and one without
\* a `subtype` field is not rejected by the subtype rule.
C6_AnySubtypeValue ==
    (Returned /\ config.show_subtypes # {} /\ msg.type # "assistant") =>
        /\ (/\ data.subtype.k # "absent"
            /\ ~(data.subtype.k = "str" /\ data.subtype.s \in config.show_subtypes))
           => ~Accepted
        /\ data.subtype.k = "absent" => ret \notin SubtypeExits

\* C6 amended: with show_subtypes non-empty, every non-assistant message whose
\* raw record has a non-empty string `subtype` that is not a member of
\* show_subtypes is rejected; one whose record has no `subtype` field, or the
\* empty string as its `subtype`, is not rejected by the subtype rule.
C6_NonEmptySubtype ==
    (Returned /\ config.show_subtypes # {} /\ msg.type # "assistant") =>
        /\ (/\ data.subtype.k = "str"
            /\ data.subtype.s # ""
            /\ data.subtype.s \notin config.show_subtypes)
           => Rejected
        /\ (data.subtype.k = "absent" \/ data.subtype = Str(""))
           => ret \notin SubtypeExits

C6_Witness ==
    /\ config.show_subtypes = {"init"}
    /\ msg.type = "system"
    /\ data.subtype = Str("")
    /\ ret = "L65"

\* C7: with show_subtypes non-empty, an assistant message passes the subtype
\* rule if and only if some content item of the raw message.content list has
\* a type tag in show_subtypes; an assistant record with no content list or an
\* empty one is rejected; a literal `subtype` field is ignored.
C7_AssistantSubtype ==
    (/\ Returned
     /\ config.show_subtypes # {}
     /\ msg.type = "assistant"
     /\ ret \notin TypeExits) =>
        /\ ret \notin SubtypeExits <=>
               \E i \in 1..Len(RawItems(data)) :
                   /\ RawItems(data)[i].k = "dict"
                   /\ RawItems(data)[i].type.k = "str"
                   /\ RawItems(data)[i].type.s \in config.show_subtypes
        /\ RawItems(data) = <<>> => ret = "L36"

\* C8: with show_tools non-empty, a record passes the tool rule if and only if
\* some tool_use item of the raw message.content has a name in show_tools;
\* every record with no tool_use item is rejected; with show_tools empty the
\* rule rejects nothing.
C8_ToolFilter ==
    (Returned /\ ret \notin TypeExits \cup SubtypeExits) =>
        /\ config.show_tools = {} => ret \notin ToolExits
        /\ config.show_tools # {} =>
            /\ ret \notin ToolExits <=>
                   \E i \in 1..Len(RawItems(data)) :
                       /\ RawItems(data)[i].k = "dict"
                       /\ RawItems(data)[i].type = Str("tool_use")
                       /\ RawItems(data)[i].name.k = "str"
                       /\ RawItems(data)[i].name.s \in config.show_tools
            /\ (~\E i \in 1..Len(RawItems(data)) :
                     /\ RawItems(data)[i].k = "dict"
                     /\ RawItems(data)[i].type = Str("tool_use"))
               => Rejected

\* some pattern of the list is a literal substring of the serialized record
Matches(patterns, d) ==
    \E i \in 1..Len(patterns) :
        LET pat == Chars(patterns[i])
            text == Dumps(d)
        IN  \E k \in 1..(Len(text) + 1) :
                /\ k + Len(pat) - 1 <= Len(text)
                /\ \A j \in 1..Len(pat) : text[k + j - 1] = pat[j]

\* C9: a record that passes the type, subtype and tool rules is accepted if
\* and only if (grep_patterns is empty or some grep pattern is a literal
\* substring of the serialized raw record) and no exclude pattern is one; a
\* record matching both a grep and an exclude pattern is rejected.
C9_GrepAndExclude ==
    (Returned /\ ret \notin TypeExits \cup SubtypeExits \cup ToolExits) =>
        /\ Accepted <=>
               /\ config.grep_patterns = <<>> \/ Matches(config.grep_patterns, data)
               /\ ~Matches(config.exclude_patterns, data)
        /\ ~Accepted => Rejected

C9_Witness ==
    /\ Returned
    /\ config.grep_patterns # <<>>
    /\ Matches(config.grep_patterns, data)
    /\ Matches(config.exclude_patterns, data)
    /\ ret = "L63"

(***************************************************************************)
(* Purity of should_show_message (checked under SpecPure)                  *)
(***************************************************************************)
\* no two recorded invocations with the same inputs differ in their result
SameInputsSameResult(h) ==
    \A a \in h, b \in h :
        (a.msg = b.msg /\ a.data = b.data /\ a.config = b.config) => a.result = b.result

\* C10: should_show_message is a pure function of (message, raw record,
\* config): invocations with identical inputs return identical results,
\* whatever ran in between, and an invocation leaves its inputs unchanged.
C10_PureFilter ==
    [][(ret = "none" /\ ret' # "none") =>
          /\ msg' = msg
          /\ data' = data
          /\ config' = config
          /\ SameInputsSameResult(calls')]_vars

\* three invocations on a stream, two of them with the same inputs
C10_Witness ==
    /\ lines_left = 0
    /\ Returned
    /\ Cardinality(calls) = 2

(***************************************************************************)
(* Properties of render (checked under SpecRender)                         *)
(***************************************************************************)
\* the number of lines of a text: one more than its newlines
CountLines(s) == Cardinality({j \in 1..Len(s) : SubSeq(s, j, j) = "\n"}) + 1

\* the texts of the blocks bs[from..to], one per line
JoinedTexts(bs, from, to) == JoinStr("\n", [j \in 1..(to - from + 1) |-> bs[from + j - 1].text])

\* the content-item renders of the message rendered last
ItemRenders(type) ==
    {item_renders[i] : i \in {j \in 1..Len(item_renders) :
        item_renders[j].status = "ok" /\ item_renders[j].item.type = Str(type)}}

\* C11: a tool_result item with show_tool_results on and a non-empty content
\* of n lines renders, after the header and the id line, the first
\* min(n, TOOL_RESULT_PREVIEW_LINES) lines as text blocks in order, then one
\* note block giving n exactly when n exceeds the limit.
C11_ToolResultPreview ==
    config.show_tool_results =>
        \A p \in ItemRenders("tool_result") :
            LET content == Field(p.item, "content")
                s == _content_to_string(content)
                n == CountLines(s)
                shown == IF n < TOOL_RESULT_PREVIEW_LINES THEN n ELSE TOOL_RESULT_PREVIEW_LINES
                joined == JoinedTexts(p.blocks, 3, 2 + shown)
            IN  (IF content.k = "list" THEN content.items # <<>>
                 ELSE content.k = "str" /\ content.s # "")
                => /\ Len(p.blocks) = 2 + shown + (IF n > TOOL_RESULT_PREVIEW_LINES THEN 1 ELSE 0)
                   /\ p.blocks[1].kind = "header"
                   /\ p.blocks[2] = TextBlock("(" \o StrField(Field(p.item, "tool_use_id")) \o ")",
                                              1, {"metadata"})
                   /\ \A j \in 3..(2 + shown) :
                        /\ p.blocks[j].kind = "text"
                        /\ p.blocks[j].styles = {}
                        /\ CountLines(p.blocks[j].text) = 1
                   /\ IF n > TOOL_RESULT_PREVIEW_LINES
                      THEN /\ SubSeq(s, 1, Len(joined) + 1) = joined \o "\n"
                           /\ p.blocks[3 + shown] =
                                TextBlock("... (" \o ToString(n) \o " lines total)", 2, {"metadata"})
                      ELSE joined = s

\* a content one line past the limit rendered as the limit's lines and the note
C11_Witness ==
    /\ rendered
    /\ config.show_tool_results
    /\ \E p \in ItemRenders("tool_result") :
        /\ Field(p.item, "content").k = "str"
        /\ CountLines(Field(p.item, "content").s) = TOOL_RESULT_PREVIEW_LINES + 1
        /\ Len(p.blocks) = TOOL_RESULT_PREVIEW_LINES + 3
        /\ p.blocks[Len(p.blocks)].styles = {"metadata"}

\* the texts a block carries
BlockTexts(b) == {b[f] : f \in DOMAIN b \cap {"text", "key", "value", "prefix", "icon", "char"}}

\* C12: a thinking item renders no block when show_thinking is off, and a
\* "Thinking:" line followed by one block per line of the thinking text, in
\* order, when it is on; no block of a rendered message holds the signature.
C12_Thinking ==
    /\ \A p \in ItemRenders("thinking") :
        IF ~config.show_thinking THEN p.blocks = <<>>
        ELSE LET text == StrField(Field(p.item, "thinking")) IN
             /\ Len(p.blocks) = 1 + CountLines(text)
             /\ p.blocks[1].kind = "text"
             /\ Find(p.blocks[1].text, "Thinking:") # 0
             /\ \A j \in 2..Len(p.blocks) :
                    p.blocks[j].kind = "text" /\ CountLines(p.blocks[j].text) = 1
             /\ JoinedTexts(p.blocks, 2, Len(p.blocks)) = text
    /\ \A i \in 1..Len(blocks) : \A s \in BlockTexts(blocks[i]) : Find(s, "sig0") = 0

\* a two-line thinking text with a signature, rendered with show_thinking on
C12_Witness ==
    /\ rendered
    /\ config.show_thinking
    /\ \E p \in ItemRenders("thinking") :
        /\ Field(p.item, "signature") = Str("sig0")
        /\ Len(p.blocks) = 3
        /\ p.blocks[3].text = "step"

\* the Duration values among the rendered blocks
DurationValues ==
    {blocks[i].value : i \in {j \in 1..Len(blocks) :
        blocks[j].kind = "keyvalue" /\ blocks[j].key = "Duration"}}

\* C13: a result message of a non-negative duration_ms renders as Duration
\* the nearest whole second, halves rounding up, followed by "s"; 1499 gives
\* "1s" and 1500 gives "2s".
C13_DurationRounded ==
    (rendered /\ msg.variant = "ResultMessage" /\ data.duration_ms.k # "absent"
        /\ IntOf(data.duration_ms) >= 0)
    => LET ms == IntOf(data.duration_ms)
           nearest == CHOOSE q \in 0..(ms \div 1000 + 1) :
                        1000 * q - 500 <= ms /\ ms < 1000 * q + 500
       IN  /\ DurationValues = {ToString(nearest) \o "s"}
           /\ ms = 1499 => DurationValues = {"1s"}
           /\ ms = 1500 => DurationValues = {"2s"}

\* 1500 ms rendered as "2s"
C13_Witness ==
    /\ rendered
    /\ msg.variant = "ResultMessage"
    /\ data.duration_ms = IntVal(1500)
    /\ DurationValues = {"2s"}

\* C17: render returns a block sequence and never raises, for every message
\* parse_message returned and every configuration, whatever the shapes of the
\* nested content items and fields.
C17_RenderNeverRaises == raised = "none"

\* the header blocks among the rendered blocks
Headers == {blocks[i] : i \in {j \in 1..Len(blocks) : blocks[j].kind = "header"}}

\* C20: a user message renders as the one variant the raw record dictates, in
\* priority order: sub-agent result (toolUseResult an object with an agentId,
\* the header naming the id); tool result (toolUseResult present otherwise:
\* tool_result items only, no "USER" header); local slash-command (content a
\* string starting with a command tag); plain user input under a "USER" header.
C20_UserVariant ==
    (parsed = "ok" /\ msg.variant = "UserMessage" /\ (rendered \/ raised # "none"))
    => /\ rendered
       /\ LET tur == data.toolUseResult
              content == data.message.content
              user_header == \E h \in Headers : h.text = "USER"
              subagent_header == \E h \in Headers : StartsWith(h.text, "SUB-AGENT (")
          IN  IF tur.k = "dict" /\ Field(tur, "agentId").k \notin {"absent", "null"}
              THEN /\ blocks[1].kind = "header"
                   /\ blocks[1].text = "SUB-AGENT (" \o PyStr(tur.agentId) \o ")"
                   /\ ~user_header
              ELSE IF tur.k \notin {"absent", "null"}
              THEN /\ \A h \in Headers : h.text \in {"Result", "Error"}
                   /\ \A i \in 1..Len(blocks) :
                        blocks[i].kind = "text" /\ blocks[i].indent = 1
                        => blocks[i].styles = {"metadata"}
              ELSE IF content.k = "str"
                      /\ (StartsWith(content.s, "<command-name>")
                          \/ StartsWith(content.s, "<local-command-stdout>"))
              THEN /\ ~user_header /\ ~subagent_header
                   /\ \A h \in Headers : StartsWith(h.text, "Command: ") \/ h.text = "Output"
              ELSE blocks[1].kind = "header" /\ blocks[1].text = "USER"

(***************************************************************************)
(* Properties of the formatters (checked under SpecFormat)                 *)
(***************************************************************************)
\* the non-empty results among the first i, each on lines of its own
Folded(results) ==
    LET fold[i \in 0..Len(results)] ==
            IF i = 0 THEN ""
            ELSE IF results[i] = "" THEN fold[i - 1]
            ELSE IF \A j \in 1..(i - 1) : results[j] = "" THEN results[i]
            ELSE fold[i - 1] \o "\n" \o results[i]
    IN  fold[Len(results)]

\* C14: format gives the blocks' results in sequence order, the non-empty
\* ones joined by single newlines; a block whose result is empty adds
\* nothing, and a block of a kind without a handler has the empty result.
\* For the ANSI, Markdown and plain formatters.
C14_FormatJoinsNonEmpty ==
    output.done =>
        /\ Len(output.parts) = Len(blocks)
        /\ output.text = Folded(output.parts)
        /\ \A i \in 1..Len(blocks) :
            blocks[i].kind \notin {"header", "text", "code", "keyvalue", "divider", "list",
                                   "nested", "spacer"}
            => output.parts[i] = ""

C14_Witness ==
    /\ output.done
    /\ Len(blocks) = 3
    /\ blocks[2].kind = "render"
    /\ output.parts[1] # ""
    /\ output.parts[3] # ""
    /\ output.parts[1] # output.parts[3]
    /\ output.text = output.parts[1] \o "\n" \o output.parts[3]

\* C15: in the three formatters a block of indent k >= 0 has every line of
\* its text prefixed by 2*k spaces (its lines are those of the same block at
\* indent 0, each behind 2*k spaces); the plain formatter gives "hello" for
\* TextBlock("hello", indent=0) and "  hello" for indent=1.
C15_Indent ==
    output.done =>
        /\ \A i \in 1..Len(blocks) :
            ("indent" \in DOMAIN blocks[i] /\ blocks[i].indent >= 0) =>
                LET flat == Split[format_block(formatter, style_order,
                                               [blocks[i] EXCEPT !.indent = 0])]
                    spaces == [j \in 1..(2 * blocks[i].indent) |-> " "]
                IN  Split[output.parts[i]]
                        = [j \in 1..Len(flat) |-> JoinStr("", spaces) \o flat[j]]
        /\ (formatter = "plain" /\ blocks = <<TextBlock("hello", 0, {})>>)
            => output.text = "hello"
        /\ (formatter = "plain" /\ blocks = <<TextBlock("hello", 1, {})>>)
            => output.text = "  hello"

C15_Witness ==
    /\ output.done
    /\ formatter = "ansi"
    /\ Len(blocks) = 2
    /\ blocks[1] = TextBlock("hello", 1, {})
    /\ output.parts[1] = "  hello"
    /\ blocks[2].kind = "text" /\ blocks[2].indent = 2
    /\ Len(Split[output.parts[2]]) = 2
    /\ \A j \in 1..2 : SubSeq(Split[output.parts[2]][j], 1, 4) = "    "

(***************************************************************************)
(* Properties of process_stream (checked under SpecStream)                 *)
(***************************************************************************)
\* process_stream has returned or an exception has left it
Ended == pc \in {"done", "raised"}

\* the positions of the lines process_stream was asked to process
Selected ==
    IF tail_lines > 0 /\ tail_lines < Len(input)
    THEN (Len(input) - tail_lines + 1)..Len(input)
    ELSE 1..Len(input)

\* what was printed for the line at a position
Emitted(at) == SelectSeq(stdout, LAMBDA e : e.at = at)

\* the line at a position is a record that passes the filter
Passes(at) ==
    /\ input[at].kind = "json"
    /\ "type" \in DOMAIN input[at].data
    /\ parse_message(input[at].data).status = "ok"
    /\ Outcome(should_show_message(parse_message(input[at].data).msg, input[at].data,
                                   config).ret) = "True"

\* C16: for a line that is not valid JSON, process_stream writes one warning
\* naming the line's 1-based number in the input (also when only the last N
\* lines are processed), prints nothing for it, and goes on to process every
\* later line; what it prints is in input order, one output per record that
\* passes the filter.
C16_InvalidJsonRecoverable ==
    Ended =>
        /\ \A at \in Selected :
            input[at].kind = "invalid" =>
                /\ SelectSeq(stderr, LAMBDA e : e.at = at)
                    = <<[at |-> at, text |-> "warning: invalid JSON on line " \o ToString(at)]>>
                /\ Emitted(at) = <<>>
                /\ todo = <<>>
        /\ \A i, j \in 1..Len(stdout) : i < j => stdout[i].at < stdout[j].at
        /\ \A at \in Selected : Len(Emitted(at)) = IF Passes(at) THEN 1 ELSE 0

\* C19: with the configuration and the formatter fixed, what process_stream
\* prints for a record depends on the record alone (and on its line number
\* when show_line_numbers is on): the same record at two places of the input,
\* behind different records, is printed the same.
C19_Stateless ==
    Ended =>
        \A at, other \in Selected :
            (input[at].kind = "json" /\ input[other] = input[at]) =>
                LET text(e) == IF config.show_line_numbers
                               THEN Tail(Split[e.text]) ELSE Split[e.text]
                    texts(es) == [i \in 1..Len(es) |-> text(es[i])]
                IN  texts(Emitted(at)) = texts(Emitted(other))

(***************************************************************************)
(* Properties of the command line (checked under SpecCli)                  *)
(***************************************************************************)
\* C18: with --compact and no other visibility flag, the configuration main
\* builds has show_types = {assistant, user} and show_metadata,
\* show_thinking and show_tool_results all false.
C18_Compact ==
    (/\ main_pc = "configured"
     /\ \E i \in 1..Len(argv) : argv[i] = "--compact"
     /\ \A i \in 1..Len(argv) : argv[i] \in {"--compact", "--line-numbers", "--format=markdown"})
    => /\ config.show_types = {"assistant", "user"}
       /\ ~config.show_metadata
       /\ ~config.show_thinking
       /\ ~config.show_tool_results

(***************************************************************************)
(* Properties of render, continued (checked under SpecRender)              *)
(***************************************************************************)
\* the message is a user message rendered as a slash command
IsCommand ==
    /\ parsed = "ok"
    /\ msg.variant = "UserMessage"
    /\ data.toolUseResult.k \in {"absent", "null"}
    /\ data.message.content.k = "str"
    /\ StartsWith(data.message.content.s, "<command-name>")

\* what stands between the first opening and the first closing tag when the
\* closing tag follows the opening one, else the empty string
Enclosed(s, open, close) ==
    IF Find(s, open) # 0 /\ Find(s, close) > Find(s, open)
    THEN SubSeq(s, Find(s, open) + Len(open), Find(s, close) - 1)
    ELSE ""

ItemBlocks ==
    LET upto[i \in 0..Len(item_renders)] ==
            IF i = 0 THEN <<>> ELSE upto[i - 1] \o item_renders[i].blocks
    IN  upto[Len(item_renders)]

\* C22: an assistant message renders as one header "ASSISTANT" (or
\* "ASSISTANT (Task Agent)" when it is a sidechain), then the blocks of the
\* content items in the order of the content list, then a token-usage line
\* exactly when input-tokens > 0 or output-tokens > 0, showing the input,
\* output and cache-read counts.
C22_AssistantRender ==
    (parsed = "ok" /\ msg.variant = "AssistantMessage" /\ (rendered \/ raised # "none")) =>
        LET items == content_items(data.message.content)
            rendering == SelectSeq(items, LAMBDA item :
                            Field(item, "type") \in {Str("text"), Str("thinking"), Str("tool_use"),
                                                     Str("tool_result"), Str("image")})
            usage == Field(data.message, "usage")
            count(key) == IF usage.k = "dict" /\ Field(usage, key).k = "num"
                          THEN IntOf(usage[key]) ELSE 0
            shown(key) == IF usage.k = "dict" /\ Field(usage, key).k # "absent"
                          THEN PyStr(usage[key]) ELSE "0"
            line == TextBlock("Tokens: in=" \o shown("input_tokens")
                                \o " out=" \o shown("output_tokens")
                                \o " cache=" \o shown("cache_read_input_tokens"),
                              1, {"metadata"})
            tokens == IF count("input_tokens") > 0 \/ count("output_tokens") > 0
                      THEN <<line>> ELSE <<>>
            head == 1 + Len(ItemBlocks) + Len(tokens)
        IN  /\ rendered
            /\ blocks[1].kind = "header"
            /\ blocks[1].text = IF Field(data, "isSidechain") = Bool(TRUE)
                                THEN "ASSISTANT (Task Agent)" ELSE "ASSISTANT"
            /\ \A i \in 2..Len(blocks) :
                blocks[i].kind = "header" => blocks[i].text \notin {"ASSISTANT", "ASSISTANT (Task Agent)"}
            /\ [i \in 1..Len(item_renders) |-> item_renders[i].item] = rendering
            /\ Len(blocks) >= head
            /\ SubSeq(blocks, 2, head) = ItemBlocks \o tokens
            /\ \A i \in (head + 1)..Len(blocks) :
                ~(blocks[i].kind = "text" /\ StartsWith(blocks[i].text, "Tokens: "))

\* C23: the metadata group (uuid / session / timestamp lines) is in the
\* rendered blocks only when config.show_metadata is true: with
\* show_metadata false no block carries the message's uuid, sessionId or
\* timestamp as metadata, whatever the message variant.
C23_MetadataOnlyWhenShown ==
    (rendered /\ ~config.show_metadata) =>
        \A i \in 1..Len(blocks) :
            (blocks[i].kind = "text" /\ blocks[i].styles = {"metadata"}) =>
                /\ blocks[i].text \notin {"-- Metadata", "--"}
                /\ blocks[i].text \notin {"| uuid: " \o msg.uuid,
                                          "| session: " \o msg.sessionId,
                                          "| timestamp: " \o msg.timestamp}

C23_Witness ==
    /\ rendered
    /\ ~config.show_metadata
    /\ msg.variant = "UserMessage"
    /\ msg.uuid = "u1"
    /\ Len(blocks) > 1

Bare(block) == format_block(formatter, style_order, [block EXCEPT !.styles = {}])

\* what a formatter puts before and behind a styled text: the text block "x"
\* with the styles, formatted with the styles iterated in declared order,
\* without the "x"
Representation(styles) ==
    LET declared == <<"bold", "dim", "italic", "error", "success", "warning", "info",
                      "user", "assistant", "system", "tool", "thinking", "metadata">>
        styled == format_block(formatter, declared, TextBlock("x", 0, styles))
    IN  [order |-> declared,
         before |-> SubSeq(styled, 1, Find(styled, "x") - 1),
         behind |-> SubSeq(styled, Find(styled, "x") + 1, Len(styled))]

\* C25: within a formatter a style set S renders the same whichever block
\* kind carries it: the styled text of a header, text, code, key-value,
\* divider or list block is wrapped in the same representation of S (ANSI:
\* the codes of S and a reset, nothing for the empty S; Markdown: the bold
\* and italic-or-thinking markers; plain: nothing), and the representation
\* does not depend on the order in which the members of S are iterated.
C25_StyleConsistent ==
    output.done =>
        \A i \in 1..Len(blocks) :
            (/\ blocks[i].kind \in {"header", "text", "code", "keyvalue", "divider", "list"}
             /\ "indent" \in DOMAIN blocks[i] => blocks[i].indent = 0
             /\ blocks[i].kind = "header" => blocks[i].icon = "" /\ blocks[i].prefix = "") =>
                LET rep == Representation(blocks[i].styles)
                    \* the text of the block that carries the styles
                    styled == CASE blocks[i].kind = "header" -> blocks[i].text
                                [] blocks[i].kind = "keyvalue" -> blocks[i].value
                                [] OTHER -> Bare(blocks[i])
                IN  /\ (blocks[i].styles = {} \/ formatter = "plain")
                        => output.parts[i] = Bare(blocks[i])
                    /\ Find(output.parts[i], rep.before \o styled \o rep.behind) # 0
                    /\ output.parts[i]
                        = format_block(formatter, Representation(blocks[i].styles).order, blocks[i])

\* C26: in the three formatters a list block formats as one line per item,
\* in item order, each item behind the block's own bullet character.
C26_ListBlock ==
    output.done =>
        \A i \in 1..Len(blocks) :
            (blocks[i].kind = "list" /\ blocks[i].styles = {}) =>
                Split[output.parts[i]]
                    = [j \in 1..Len(blocks[i].items) |->
                        JoinStr("", [k \in 1..(2 * blocks[i].indent) |-> " "])
                            \o blocks[i].bullet \o " " \o blocks[i].items[j]]

\* C27: a spacer block with lines = n (n >= 1) adds n-1 blank lines to the
\* formatted text of a block sequence, wherever it stands in the sequence,
\* in the three formatters: the text has n-1 lines more than the text of the
\* sequence without the spacer.
C27_Spacer ==
    output.done =>
        \A i \in 1..Len(blocks) :
            (blocks[i].kind = "spacer" /\ blocks[i].lines >= 1) =>
                LET others == SubSeq(blocks, 1, i - 1) \o SubSeq(blocks, i + 1, Len(blocks))
                IN  CountLines(output.text)
                        = CountLines(format(formatter, style_order, others)) + blocks[i].lines - 1

(***************************************************************************)
(* Properties of process_stream, continued (checked under SpecStream)      *)
(***************************************************************************)
\* the seven types parse_message knows
SevenTypes ==
    {"assistant", "user", "system", "file-history-snapshot", "summary", "queue-operation",
     "result"}

\* the position of the line an exception came from
RaisedAt == IF todo = <<>> THEN Len(input) ELSE Head(todo) - 1

\* C28: under the default configuration should_show_message accepts every
\* record whose type is one of the seven known types and rejects every
\* record whose type is absent or unknown, so the text
\* "[Unknown message type: {type}]" is printed only for records of a known
\* type (those whose typed construction failed).
C28_DefaultFilter ==
    \A at \in Selected :
        (/\ at \notin {todo[i] : i \in 1..Len(todo)}
         /\ pc # "start"
         /\ input[at].kind = "json"
         /\ "type" \in DOMAIN input[at].data) =>
            LET type == input[at].data.type
                known == type.k = "str" /\ type.s \in SevenTypes
            IN  /\ known => Passes(at)
                /\ ~known => /\ Emitted(at) = <<>>
                             /\ ~(pc = "raised" /\ at = RaisedAt)
                /\ \A i \in 1..Len(stdout) :
                    (stdout[i].at = at /\ Find(stdout[i].text, "[Unknown message type: ") # 0)
                    => known

(***************************************************************************)
(* Properties of the watcher (checked under SpecWatch)                     *)
(***************************************************************************)

\* the file has only been appended to and no creation event has reset the
\* position
AppendOnly == ~history.shrunk /\ ~history.created

\* C29: on an append-only file with no creation event, every call reads
\* from the recorded position to the end of the file as read and nothing
\* else, a returned call leaves the position at that end, the reads are
\* disjoint and in order, no line is passed to the parser twice, every line
\* passed lies in what a call read, and a call with nothing appended reads
\* (and so emits) nothing
C29_AtMostOnce ==
    AppendOnly =>
        LET reads == history.reads
            passed == history.parsed
        IN  /\ \A i \in DOMAIN reads :
                  /\ reads[i].to = reads[i].size
                  /\ reads[i].from <= reads[i].to
                  /\ Len(reads[i].content) = reads[i].to - reads[i].from
                  /\ reads[i].call = "new_lines" =>
                        reads[i].from = (IF i = 1 THEN history.start ELSE reads[i - 1].to)
                  /\ reads[i].from = reads[i].size => reads[i].content = ""
            /\ \A i, j \in DOMAIN reads : i < j => reads[i].to <= reads[j].from
            /\ (watch_pc = "idle" /\ reads # <<>>) => file_positions = reads[Len(reads)].to
            /\ \A i, j \in DOMAIN passed : i < j => passed[i].start # passed[j].start
            /\ \A k \in DOMAIN passed :
                  \E i \in DOMAIN reads :
                      /\ reads[i].content # ""
                      /\ reads[i].from <= passed[k].start
                      /\ passed[k].start < reads[i].to
            /\ \A k \in DOMAIN stdout :
                  \E i \in DOMAIN passed : passed[i].start = stdout[k].at

\* two calls have read the appends of an append-only file one after the
\* other, a call between or after them found nothing appended, and the
\* records of both were printed
C29_Witness ==
    /\ AppendOnly
    /\ watch_pc = "idle"
    /\ \E i, j, k \in DOMAIN history.reads :
          /\ i < j
          /\ history.reads[i].content # ""
          /\ history.reads[j].content # ""
          /\ history.reads[j].from = history.reads[i].to
          /\ history.reads[k].content = ""
    /\ Len(stdout) >= 2

\* the observer's thread has handled every event
Settled == watch_pc = "idle" /\ events = <<>>

\* the lines passed to the parser and handled (printed, or rejected by the
\* filter) that are the k-th line appended since watching began
Handled(k) ==
    {i \in DOMAIN history.parsed :
        /\ history.parsed[i].gen = history.lines[k].gen
        /\ history.parsed[i].start = history.lines[k].start
        /\ history.parsed[i].text = history.lines[k].text
        /\ history.parsed[i].status \in {"shown", "skipped"}}

\* C30: once every event is handled, every complete record line appended
\* since watching began has been parsed, filtered and rendered exactly once,
\* however the appends were split and whether or not the file shrank
C30_EveryLineOnce ==
    Settled => \A k \in DOMAIN history.lines : Cardinality(Handled(k)) = 1


=============================================================================
